---- MODULE Spec2Model ----
(***************************************************************************)
(* Turbo Transform (src/rust-transform/src/main.rs): the batch             *)
(* orchestrator `main` and the per-file pipeline `process_file`, run by a  *)
(* rayon worker pool, one task per enumerated CSV file.                    *)
(*                                                                         *)
(* A file name is a record [stem, ext].  An output line is a record with   *)
(* a `kind` field.  Sizes are counted in abstract bytes: an action line    *)
(* has ActionLen bytes, a document line DocLen bytes, and a BufWriter      *)
(* holds at most BufCap bytes.  File contents are kept line by line.       *)
(*                                                                         *)
(* Spec and FairSpec follow a run of main.  HeaderSpec follows the scan of *)
(* one header row by ColumnMap::from_headers, and RowSpec the row loop of  *)
(* process_file on one file, with the text of every cell and of every line *)
(* that is written.                                                        *)
(***************************************************************************)
EXTENDS Integers, Sequences, FiniteSets, TLC

\* ------------------------------------------------------------------ bounds
\* At most this many entries in the input directory.
MaxDirEntries == 2
\* rayon::current_num_threads() is drawn from 1..MaxThreads.
MaxThreads == 2
\* At most this many rows are read in one run, over all files.
MaxRows == 3
\* At most this many failing writes to an output file in one run.
MaxFail == 1
\* The 1 MiB BufWriter capacity and the line lengths, scaled down.
BufCap == 4
ActionLen == 1
DocLen == 2
\* The progress batch of 500_000 records, scaled down.
BatchSize == 2
\* At most this many cells in a header row.
MaxHeaders == 4
\* At most this many rows are read from the file whose rows are followed.
MaxProjRows == 2
\* At most this many characters in a text made of TextChars.
MaxTextLen == 3

\* ------------------------------------------------------------- file names
F(stem, ext) == [stem |-> stem, ext |-> ext]

AllNames == {F("a", "csv"), F("a", "CSV"), F("b", "csv"), F("c", "txt")}

\* str::to_ascii_lowercase on the extensions that occur.
LowerAscii(s) == CASE s = "CSV" -> "csv" [] OTHER -> s

\* OsStr::eq_ignore_ascii_case
EqIgnoreAsciiCase(s, t) == LowerAscii(s) = LowerAscii(t)

\* fs::metadata(p).len() of each directory entry.
FileSize(f) ==
    CASE f = F("a", "csv") -> 4
      [] f = F("a", "CSV") -> 3
      [] f = F("b", "csv") -> 2
      [] OTHER -> 1

\* output_dir.join(format!("{}.ndjson", stem)), output_dir.join(format!("{}.bulk", stem))
NdjsonPath(f) == F(f.stem, "ndjson")
BulkPath(f) == F(f.stem, "bulk")

OutPaths == {NdjsonPath(f) : f \in AllNames} \cup {BulkPath(f) : f \in AllNames}

\* csv_files.sort_by(size descending)
RECURSIVE SortBySizeDesc(_)
SortBySizeDesc(S) ==
    IF S = {} THEN <<>>
    ELSE LET m == CHOOSE x \in S : \A y \in S : FileSize(y) <= FileSize(x)
         IN  <<m>> \o SortBySizeDesc(S \ {m})

Range(s) == {s[i] : i \in 1..Len(s)}

\* ---------------------------------------------------------------- strings
\* A &str is a TLA+ string; At(s, i) is its i-th character, from 1.
At(s, i) == SubSeq(s, i, i)

Whitespace == {" ", "\t"}
Quotes == {"\"", "'"}
Digits == {"0", "1", "2", "3", "4", "5", "6", "7", "8", "9"}

\* str::trim_start_matches and str::trim_end_matches for a set of characters
RECURSIVE TrimStartMatches(_, _)
TrimStartMatches(s, cs) ==
    IF s # "" /\ At(s, 1) \in cs THEN TrimStartMatches(SubSeq(s, 2, Len(s)), cs) ELSE s

RECURSIVE TrimEndMatches(_, _)
TrimEndMatches(s, cs) ==
    IF s # "" /\ At(s, Len(s)) \in cs THEN TrimEndMatches(SubSeq(s, 1, Len(s) - 1), cs) ELSE s

\* str::trim_matches
TrimMatches(s, cs) == TrimEndMatches(TrimStartMatches(s, cs), cs)

\* str::trim
Trim(s) == TrimMatches(s, Whitespace)

\* the byte offsets (from 0) at which pat occurs in s
Occurrences(s, pat) ==
    {i \in 0..(Len(s) - Len(pat)) : SubSeq(s, i + 1, i + Len(pat)) = pat}

\* str::contains
Contains(s, pat) == Occurrences(s, pat) # {}

\* str::rfind: the offset of the last occurrence, None as -1
RFind(s, pat) ==
    IF Occurrences(s, pat) = {} THEN -1
    ELSE CHOOSE i \in Occurrences(s, pat) : \A j \in Occurrences(s, pat) : j <= i

\* Option<usize>
None == [some |-> FALSE, idx |-> 0]
Some(i) == [some |-> TRUE, idx |-> i]

\* csv::StringRecord::get(i): the cell at index i (from 0), if the row has one
RecordGet(record, i) == IF i < Len(record) THEN Some(i) ELSE None

\* A get_field that trims the cell and leaves its quote characters.
GetFieldTrimOnly(record, idx) ==
    IF idx.some /\ RecordGet(record, idx.idx).some
    THEN Trim(record[idx.idx + 1])
    ELSE ""

\* get_field: the cell trimmed, then stripped of the quote characters around
\* it; "" when the column is not mapped or the row is too short
GetField(record, idx) ==
    IF idx.some /\ RecordGet(record, idx.idx).some
    THEN TrimMatches(Trim(record[idx.idx + 1]), Quotes)
    ELSE ""

\* the first maximal run of ASCII digits of s, as parse_i64 collects it
RECURSIVE DigitRun(_, _)
DigitRun(s, run) ==
    IF s = "" THEN run
    ELSE IF At(s, 1) \in Digits THEN DigitRun(SubSeq(s, 2, Len(s)), run \o At(s, 1))
    ELSE IF run # "" THEN run
    ELSE DigitRun(SubSeq(s, 2, Len(s)), run)

DigitValue(c) ==
    CASE c = "0" -> 0 [] c = "1" -> 1 [] c = "2" -> 2 [] c = "3" -> 3 [] c = "4" -> 4
      [] c = "5" -> 5 [] c = "6" -> 6 [] c = "7" -> 7 [] c = "8" -> 8 [] c = "9" -> 9

\* the digits of i64::MAX, 9223372036854775807
I64MaxDigits == "9223372036854775807"

\* d and e are digit strings of the same length: d is the larger number
RECURSIVE DigitsGreater(_, _)
DigitsGreater(d, e) ==
    IF d = "" THEN FALSE
    ELSE IF At(d, 1) # At(e, 1) THEN DigitValue(At(d, 1)) > DigitValue(At(e, 1))
    ELSE DigitsGreater(SubSeq(d, 2, Len(d)), SubSeq(e, 2, Len(e)))

\* the value of a digit string
RECURSIVE DecValue(_)
DecValue(d) ==
    IF d = "" THEN 0
    ELSE 10 * DecValue(SubSeq(d, 1, Len(d) - 1)) + DigitValue(At(d, Len(d)))

\* str::parse::<i64> of a digit string: Err when it is empty or above i64::MAX
ParsesAsI64(d) ==
    LET z == TrimStartMatches(d, {"0"})
    IN  /\ d # ""
        /\ Len(z) <= Len(I64MaxDigits)
        /\ ~(Len(z) = Len(I64MaxDigits) /\ DigitsGreater(z, I64MaxDigits))

\* the characters of s that are in cs, in order: chars().filter(..).collect()
RECURSIVE Filter(_, _)
Filter(s, cs) ==
    IF s = "" THEN ""
    ELSE (IF At(s, 1) \in cs THEN At(s, 1) ELSE "") \o Filter(SubSeq(s, 2, Len(s)), cs)

\* A parse_i64 that collects every digit of s, not the first run only.
ParseI64AllDigits(s) ==
    IF s = "" THEN 0
    ELSE LET num_str == Filter(s, Digits)
         IN  IF ParsesAsI64(num_str) THEN DecValue(TrimStartMatches(num_str, {"0"})) ELSE 0

\* parse_i64
ParseI64(s) ==
    IF s = "" THEN 0
    ELSE LET num_str == DigitRun(s, "")
         IN  IF ParsesAsI64(num_str) THEN DecValue(TrimStartMatches(num_str, {"0"})) ELSE 0

\* An f64 that str::parse gives for a decimal literal without exponent, kept
\* as its sign and its decimal digits: `int` has no leading zero and `frac` no
\* trailing zero.  Literals that differ only in such zeros are the same f64.
F64(neg, int, frac) == [neg |-> neg, int |-> int, frac |-> frac]
F64Zero == F64(FALSE, "", "")

\* str::parse::<f64> accepts t: an optional sign, then digits with at most
\* one `.` among them and at least one digit
ParsesAsF64(t) ==
    LET body == IF t # "" /\ At(t, 1) = "-" THEN SubSeq(t, 2, Len(t)) ELSE t
    IN  /\ Filter(body, Digits \cup {"."}) = body
        /\ Len(Filter(body, {"."})) <= 1
        /\ Filter(body, Digits) # ""

\* `t.parse::<f64>().unwrap_or(0.0)`
ParseOrZero(t) ==
    IF ~ParsesAsF64(t) THEN F64Zero
    ELSE LET neg == At(t, 1) = "-"
             body == IF neg THEN SubSeq(t, 2, Len(t)) ELSE t
             dot == RFind(body, ".")
             int == IF dot = -1 THEN body ELSE SubSeq(body, 1, dot)
             frac == IF dot = -1 THEN "" ELSE SubSeq(body, dot + 2, Len(body))
         IN  F64(neg, TrimStartMatches(int, {"0"}), TrimEndMatches(frac, {"0"}))

\* A parse_f64 that takes every `,` for a thousands separator.
ParseF64DropsCommas(s) ==
    IF s = "" THEN F64Zero
    ELSE LET cleaned == Filter(s, Digits \cup {".", "-", ","})
             no_commas == Filter(cleaned, Digits \cup {".", "-"})
         IN  IF cleaned = "" THEN F64Zero ELSE ParseOrZero(no_commas)

\* parse_f64
ParseF64(s) ==
    IF s = "" THEN F64Zero
    ELSE LET cleaned == Filter(s, Digits \cup {".", "-", ","})
             no_commas == Filter(cleaned, Digits \cup {".", "-"})
             comma == RFind(cleaned, ",")
         IN  IF cleaned = "" THEN F64Zero
             ELSE IF Contains(cleaned, ".") THEN ParseOrZero(no_commas)
             ELSE IF At(cleaned, Len(cleaned)) = "," THEN ParseOrZero(no_commas)
             ELSE IF Len(Filter(cleaned, {","})) = 1 /\ Len(cleaned) - (comma + 1) <= 2
                  THEN ParseOrZero(SubSeq(cleaned, 1, comma) \o "."
                                      \o SubSeq(cleaned, comma + 2, Len(cleaned)))
             ELSE ParseOrZero(no_commas)

\* An extract_stock_code_from_filename that cuts at the first `_` of the
\* text before the marker.
ExtractStockCodeFromFirstUnderscore(filename) ==
    LET start == RFind(filename, "_part")
        before == SubSeq(filename, 1, start)
        underscores == Occurrences(before, "_")
        underscore == CHOOSE u \in underscores : \A v \in underscores : u <= v
    IN  IF start # -1 /\ underscores # {}
        THEN SubSeq(before, underscore + 2, Len(before))
        ELSE ""

\* extract_stock_code_from_filename
ExtractStockCodeFromFilename(filename) ==
    LET start == RFind(filename, "_part")
        before == SubSeq(filename, 1, start)
        underscore == RFind(before, "_")
    IN  IF start # -1 /\ underscore # -1
        THEN SubSeq(before, underscore + 2, Len(before))
        ELSE ""

\* ------------------------------------------------------------ ColumnMap
LowerLetters == "abcdefghijklmnopqrstuvwxyz"
UpperLetters == "ABCDEFGHIJKLMNOPQRSTUVWXYZ"

\* str::to_ascii_lowercase
RECURSIVE ToAsciiLowercase(_)
ToAsciiLowercase(s) ==
    IF s = "" THEN ""
    ELSE LET c == At(s, 1)
             i == RFind(UpperLetters, c)
         IN  (IF i # -1 THEN At(LowerLetters, i + 1) ELSE c)
                 \o ToAsciiLowercase(SubSeq(s, 2, Len(s)))

\* An order of the tests of from_headers with the part number after the
\* description.
ColumnMapFieldsDescriptionFirst ==
    <<"description", "part_number", "brand", "supplier", "price", "currency",
      "quantity", "min_order_qty", "stock", "stock_code", "weight", "weight_unit",
      "volume", "delivery_days", "category", "subcategory">>

\* the fields of ColumnMap, in the order from_headers tries them
ColumnMapFields ==
    <<"part_number", "description", "brand", "supplier", "price", "currency",
      "quantity", "min_order_qty", "stock", "stock_code", "weight", "weight_unit",
      "volume", "delivery_days", "category", "subcategory">>

ColumnMapNames == {ColumnMapFields[k] : k \in 1..Len(ColumnMapFields)}

\* the ColumnMap from_headers starts from
EmptyColumnMap == [fld \in ColumnMapNames |-> None]

\* the test from_headers makes of h_lower for each field: the substrings it
\* looks for with contains() and the strings it compares with ==
HeaderRule(fld) ==
    CASE fld = "part_number" ->
            [contains |-> {"vendor code", "vendor_code"},
             equals |-> {"partnumber", "part number", "part_number", "sku", "code",
                         "item number", "item #", "product code", "part #"}]
      [] fld = "description" ->
            [contains |-> {"title", "desc"}, equals |-> {"name", "product name"}]
      [] fld = "brand" ->
            [contains |-> {"brand"}, equals |-> {"manufacturer", "make", "mfr"}]
      [] fld = "supplier" -> [contains |-> {"supplier"}, equals |-> {}]
      [] fld = "price" -> [contains |-> {"price", "cost"}, equals |-> {}]
      [] fld = "currency" ->
            [contains |-> {"currency", "curr"}, equals |-> {"aed", "usd"}]
      [] fld = "quantity" -> [contains |-> {}, equals |-> {"quantity", "qty"}]
      [] fld = "min_order_qty" ->
            [contains |-> {"min_lot", "min lot", "minorder", "min_order"},
             equals |-> {"moq", "minimum order"}]
      [] fld = "stock" -> [contains |-> {}, equals |-> {"stock"}]
      [] fld = "stock_code" ->
            [contains |-> {"stock code", "stock_code", "stockcode"},
             equals |-> {"warehouse"}]
      [] fld = "weight" -> [contains |-> {}, equals |-> {"weight"}]
      [] fld = "weight_unit" ->
            [contains |-> {"weight_unit", "weightunit"}, equals |-> {}]
      [] fld = "volume" -> [contains |-> {"volume"}, equals |-> {"vol"}]
      [] fld = "delivery_days" ->
            [contains |-> {"delivery", "lead_time", "leadtime"}, equals |-> {}]
      [] fld = "category" -> [contains |-> {}, equals |-> {"category", "cat"}]
      [] fld = "subcategory" ->
            [contains |-> {"subcategory", "subcat", "sub_category"}, equals |-> {}]

HeaderMatches(h_lower, fld) ==
    \/ \E pat \in HeaderRule(fld).contains : Contains(h_lower, pat)
    \/ h_lower \in HeaderRule(fld).equals

\* `let h_lower = h.trim().to_ascii_lowercase().trim_matches(quotes)`
HLower(h) == TrimMatches(ToAsciiLowercase(Trim(h)), Quotes)

\* One turn of the loop of from_headers that takes every matching header for
\* a field, whether the field has a column already or not.
RECURSIVE LastMatchWins(_, _, _, _)
LastMatchWins(map, h_lower, i, k) ==
    IF k > Len(ColumnMapFields) THEN map
    ELSE LET fld == ColumnMapFields[k]
         IN  IF HeaderMatches(h_lower, fld)
             THEN [map EXCEPT ![fld] = Some(i)]
             ELSE LastMatchWins(map, h_lower, i, k + 1)

\* One turn of a loop of from_headers without `continue`: every field that
\* has no column yet and whose test h_lower passes takes i.
RECURSIVE EveryMatchWins(_, _, _, _)
EveryMatchWins(map, h_lower, i, k) ==
    IF k > Len(ColumnMapFields) THEN map
    ELSE LET fld == ColumnMapFields[k]
         IN  IF ~map[fld].some /\ HeaderMatches(h_lower, fld)
             THEN EveryMatchWins([map EXCEPT ![fld] = Some(i)], h_lower, i, k + 1)
             ELSE EveryMatchWins(map, h_lower, i, k + 1)

\* One turn of the loop of from_headers, for the header at index i: the first
\* field, from the k-th on, that has no column yet and whose test h_lower
\* passes takes i (`continue`); a header no such field wants changes nothing.
RECURSIVE FirstMatchWins(_, _, _, _)
FirstMatchWins(map, h_lower, i, k) ==
    IF k > Len(ColumnMapFields) THEN map
    ELSE LET fld == ColumnMapFields[k]
         IN  IF ~map[fld].some /\ HeaderMatches(h_lower, fld)
             THEN [map EXCEPT ![fld] = Some(i)]
             ELSE FirstMatchWins(map, h_lower, i, k + 1)

\* the header cells the scans are run on
HeaderCells ==
    {"Vendor Code", "Title", "Stock", "Stock Code", "'SKU'", "Description",
     "Vendor Code Title", "Warehouse ID"}

RECURSIVE SeqsUpTo(_, _)
SeqsUpTo(S, n) ==
    IF n = 0 THEN {<<>>}
    ELSE LET shorter == SeqsUpTo(S, n - 1)
         IN  shorter \cup {Append(s, x) : s \in {t \in shorter : Len(t) = n - 1}, x \in S}

\* ------------------------------------------------------------------ rows
\* the arguments of process_file that are the same for every row
IntegrationId == "65f0c0ffee"
IntegrationName == "APMG"
ImportedAt == "2026-01-01T00:00:00Z"
EsIndexName == "automotive_parts"

PartRecordESFields ==
    ColumnMapFields \o <<"integration", "integration_name", "file_name">>
PartRecordFields == PartRecordESFields \o <<"imported_at">>

F64Fields == {"price", "weight", "volume"}
I64Fields == {"quantity", "min_order_qty", "delivery_days"}

\* `let doc = PartRecord { .. }` with the locals it is built from
PartRecord(record, map, name) ==
    LET part_number == GetField(record, map.part_number)
        raw_stock_code == GetField(record, map.stock_code)
        filename_stock_code == ExtractStockCodeFromFilename(name)
        stock_code == IF raw_stock_code = "" THEN filename_stock_code ELSE raw_stock_code
        currency_raw == GetField(record, map.currency)
        currency == IF currency_raw = "" THEN "AED" ELSE currency_raw
        weight_unit_raw == GetField(record, map.weight_unit)
        weight_unit == IF weight_unit_raw = "" THEN "kg" ELSE weight_unit_raw
        stock_raw == GetField(record, map.stock)
        stock == IF stock_raw = "" THEN "unknown" ELSE stock_raw
        min_order_raw == ParseI64(GetField(record, map.min_order_qty))
        min_order_qty == IF min_order_raw < 1 THEN 1 ELSE min_order_raw
    IN  [part_number |-> part_number,
         description |-> GetField(record, map.description),
         brand |-> GetField(record, map.brand),
         supplier |-> GetField(record, map.supplier),
         price |-> ParseF64(GetField(record, map.price)),
         currency |-> currency,
         quantity |-> ParseI64(GetField(record, map.quantity)),
         min_order_qty |-> min_order_qty,
         stock |-> stock,
         stock_code |-> stock_code,
         weight |-> ParseF64(GetField(record, map.weight)),
         weight_unit |-> weight_unit,
         volume |-> ParseF64(GetField(record, map.volume)),
         delivery_days |-> ParseI64(GetField(record, map.delivery_days)),
         category |-> GetField(record, map.category),
         subcategory |-> GetField(record, map.subcategory),
         integration |-> IntegrationId,
         integration_name |-> IntegrationName,
         file_name |-> name,
         imported_at |-> ImportedAt]

\* A PartRecordES that takes its stock from the cell as it is in the row and
\* not from the resolved local.
PartRecordESFromCells(d, record, map) ==
    [fld \in {PartRecordESFields[k] : k \in 1..Len(PartRecordESFields)} |->
        IF fld = "stock" THEN GetField(record, map.stock) ELSE d[fld]]

\* `let es_doc = PartRecordES { .. }`: every field is a field of doc or the
\* local that doc took
PartRecordES(d, record, map) ==
    [fld \in {PartRecordESFields[k] : k \in 1..Len(PartRecordESFields)} |-> d[fld]]

\* #[serde(rename_all = "camelCase")]: the `_` go and the letter after each
\* becomes a capital
RECURSIVE CamelCase(_)
CamelCase(name) ==
    IF name = "" THEN ""
    ELSE IF At(name, 1) = "_" /\ Len(name) >= 2
         THEN LET c == At(name, 2)
                  i == RFind(LowerLetters, c)
              IN  (IF i # -1 THEN At(UpperLetters, i + 1) ELSE c)
                      \o CamelCase(SubSeq(name, 3, Len(name)))
    ELSE At(name, 1) \o CamelCase(SubSeq(name, 2, Len(name)))

\* serde_json: the characters of a string between its quotes
RECURSIVE JsonEscape(_)
JsonEscape(s) ==
    IF s = "" THEN ""
    ELSE LET c == At(s, 1)
         IN  (CASE c = "\"" -> "\\\""
                [] c = "\\" -> "\\\\"
                [] c = "\t" -> "\\t"
                [] OTHER -> c) \o JsonEscape(SubSeq(s, 2, Len(s)))

\* serde_json: an f64 of moderate size is written with its decimal point
F64Text(x) ==
    (IF x.neg THEN "-" ELSE "") \o (IF x.int = "" THEN "0" ELSE x.int)
        \o "." \o (IF x.frac = "" THEN "0" ELSE x.frac)

JsonValue(fld, v) ==
    IF fld \in F64Fields THEN F64Text(v)
    ELSE IF fld \in I64Fields THEN ToString(v)
    ELSE "\"" \o JsonEscape(v) \o "\""

\* the name each field is written under
JsonKeys == [k \in 1..Len(PartRecordFields) |-> CamelCase(PartRecordFields[k])]

RECURSIVE JsonMembers(_, _, _)
JsonMembers(d, flds, k) ==
    IF k > Len(flds) THEN ""
    ELSE (IF k > 1 THEN "," ELSE "")
            \o "\"" \o JsonKeys[k] \o "\":" \o JsonValue(flds[k], d[flds[k]])
            \o JsonMembers(d, flds, k + 1)

\* serde_json::to_writer of a struct: its fields in the order of declaration
ToJson(d, flds) == "{" \o JsonMembers(d, flds, 1) \o "}"

\* `format!(r#"{{"index":{{"_index":"{}"}}}}\n"#, es_index_name)`
EsActionLine == "{\"index\":{\"_index\":\"" \o EsIndexName \o "\"}}\n"

\* A row with a cell for every column of FullMap, and rows that differ from it
\* in one cell or in length.  The reader trims with csv::Trim::All, so no cell
\* begins or ends with white space.
BaseRecord ==
    <<"P1", "Oil filter", "Bosch", "ACME", "12.50", "USD", "7", "2", "in stock",
      "WH1", "1.5", "g", "0.25", "3", "Engine", "Filters">>

WithCell(col, cell) == [BaseRecord EXCEPT ![col] = cell]

Rows ==
    {BaseRecord, <<>>, <<"P9">>, <<"", "Oil filter">>}
        \cup {WithCell(1, c) : c \in {"", "''", "' '", "'P2'", "P\"3"}}
        \cup {WithCell(6, c) : c \in {"", "'EUR'", "''"}}
        \cup {WithCell(8, c) : c \in {"0", "-5", "", "12 pcs", "99999999999999999999"}}
        \cup {WithCell(9, c) : c \in {"", "\"\""}}
        \cup {WithCell(10, c) : c \in {"", "''", "'WH2'"}}
        \cup {WithCell(12, c) : c \in {"", "\"lb\""}}
        \cup {WithCell(5, c) : c \in {"1,234.56", "-0.5", "n/a"}}

\* the ColumnMap of a header row that names every field in the order of
\* ColumnMapFields, of one that names the part number only, and of one with
\* the stock code before the part number
FullMap ==
    [fld \in ColumnMapNames |->
        Some((CHOOSE k \in 1..Len(ColumnMapFields) : ColumnMapFields[k] = fld) - 1)]
PartNumberOnlyMap == [EmptyColumnMap EXCEPT !["part_number"] = Some(0)]
StockCodeFirstMap ==
    [EmptyColumnMap EXCEPT !["stock_code"] = Some(0), !["part_number"] = Some(1)]
ColumnMaps == {FullMap, PartNumberOnlyMap, StockCodeFirstMap}

\* the names of the files whose rows are followed
RowFileNames ==
    {"APMG price 1 day_DS1_part1.csv", "prices.csv", "DS1_part1.csv", "a_b_part1_c_part2.csv"}

\* what one turn of the row loop makes of a row: the two records and the
\* two buffers with their serialized text and the line feed after it
RowOutput(record, map, name) ==
    LET d == PartRecord(record, map, name)
        e == PartRecordES(d, record, map)
    IN  [doc |-> d,
         es_doc |-> e,
         ndjson_buf |-> ToJson(d, PartRecordFields) \o "\n",
         bulk_doc_buf |-> ToJson(e, PartRecordESFields) \o "\n"]

\* RowOutput for every file name, ColumnMap and row that is followed
RowOutputs ==
    [name \in RowFileNames |->
        [map \in ColumnMaps |-> [record \in Rows |-> RowOutput(record, map, name)]]]

NoCounts ==
    [rows_read |-> 0, record_count |-> 0,
     ndjson_bytes_written |-> 0, bulk_bytes_written |-> 0]

NoDoc == <<>>

\* ------------------------------------------------------------------ lines
\* serde_json of PartRecord (with imported_at), PartRecordES (without it) and
\* the pre-computed action line.  `rec` is the ordinal of the accepted row.
DocLine(f, k) == [kind |-> "doc", file |-> f, rec |-> k, imported_at |-> TRUE]
EsDocLine(f, k) == [kind |-> "doc", file |-> f, rec |-> k, imported_at |-> FALSE]
ActionLine == [kind |-> "action", file |-> F("", ""), rec |-> 0, imported_at |-> FALSE]
\* Bytes of a file that no handle has written (a gap left by a truncation).
HoleLine == [kind |-> "hole", file |-> F("", ""), rec |-> 0, imported_at |-> FALSE]

\* ------------------------------------------------------------------ state
VARIABLES
    dir,                    \* entries of the input directory
    num_threads,            \* rayon::current_num_threads()
    main_pc,                \* position of main
    exit_code,              \* -1 while running, else the process exit status
    csv_files,              \* Vec<PathBuf> after enumeration and sort
    stderr,                 \* lines on the diagnostic stream
    stdout,                 \* lines on the primary output stream
    results,                \* Vec<FileResult> collected by main
    agg,                    \* main's aggregation locals
    pc,                     \* per file: position of process_file
    rows_read,              \* per file: rows consumed from the csv reader
    record_count,           \* per file: local record_count
    ndjson_bytes_written,   \* per file
    bulk_bytes_written,     \* per file
    ndjson_writer,          \* per file: BufWriter over the .ndjson handle
    bulk_writer,            \* per file: BufWriter over the .bulk handle
    returned,               \* per file: FileResults returned by process_file
    done,                   \* per file: local `done`, 0 before it is set
    disk,                   \* output directory: path -> file
    global_records,         \* AtomicU64
    completed_files,        \* AtomicUsize
    io_failures,            \* failed writes so far
    headers,                \* header row given to ColumnMap::from_headers
    header_i,               \* from_headers: index of the next header of the scan
    col_map,                \* ColumnMap
    file_name,              \* process_file: name of the file being transformed
    csv_record,             \* process_file: the row last read
    doc,                    \* process_file: PartRecord of the row last accepted
    es_doc,                 \* process_file: PartRecordES of the row last accepted
    ndjson_lines,           \* the lines given to the .ndjson stream
    bulk_lines,             \* the lines given to the .bulk stream
    counts,                 \* record_count and the two byte counts of that file
    content_pc,             \* position of the scan or of the row loop
    s_text,                 \* the argument `s` of parse_f64 and of parse_i64
    parsed                  \* what the two functions returned for it

main_vars == <<dir, num_threads, main_pc, exit_code, csv_files, stderr, stdout, results, agg>>
file_vars == <<pc, rows_read, record_count, ndjson_bytes_written, bulk_bytes_written,
               ndjson_writer, bulk_writer, returned, done>>
shared_vars == <<disk, global_records, completed_files, io_failures>>
\* The content of one file (its header row, its rows and the lines made from
\* them) is followed by the specifications HeaderSpec and RowSpec; Spec and
\* FairSpec follow the run as a whole and leave these variables alone.
content_vars == <<headers, header_i, col_map, file_name, csv_record, doc, es_doc,
                  ndjson_lines, bulk_lines, counts, content_pc, s_text, parsed>>
vars == <<main_vars, file_vars, shared_vars, content_vars>>

NoWriter == [created |-> FALSE, buf |-> <<>>, used |-> 0, pos |-> 0]
NoFile == [exists |-> FALSE, lines |-> <<>>]
NoAgg == [i |-> 0, total_records |-> 0, total_ndjson_bytes |-> 0,
          total_bulk_bytes |-> 0, errors |-> <<>>]

\* neither function has been called
NotParsed == [by |-> "none", f64 |-> F64Zero, i64 |-> 0]

\* nothing of a file's content is followed
ContentIdle ==
    /\ headers = <<>>
    /\ header_i = 0
    /\ col_map = EmptyColumnMap
    /\ file_name = ""
    /\ csv_record = <<>>
    /\ doc = NoDoc
    /\ es_doc = NoDoc
    /\ ndjson_lines = <<>>
    /\ bulk_lines = <<>>
    /\ counts = NoCounts
    /\ content_pc = "idle"
    /\ s_text = ""
    /\ parsed = NotParsed

Init ==
    /\ dir \in {d \in SUBSET AllNames : Cardinality(d) <= MaxDirEntries}
    /\ num_threads \in 1..MaxThreads
    /\ main_pc = "args"
    /\ exit_code = -1
    /\ csv_files = <<>>
    /\ stderr = <<>>
    /\ stdout = <<>>
    /\ results = <<>>
    /\ agg = NoAgg
    /\ pc = [f \in AllNames |-> "pending"]
    /\ rows_read = [f \in AllNames |-> 0]
    /\ record_count = [f \in AllNames |-> 0]
    /\ ndjson_bytes_written = [f \in AllNames |-> 0]
    /\ bulk_bytes_written = [f \in AllNames |-> 0]
    /\ ndjson_writer = [f \in AllNames |-> NoWriter]
    /\ bulk_writer = [f \in AllNames |-> NoWriter]
    /\ returned = [f \in AllNames |-> <<>>]
    /\ done = [f \in AllNames |-> 0]
    /\ disk = [p \in OutPaths |-> NoFile]
    /\ global_records = 0
    /\ completed_files = 0
    /\ io_failures = 0
    /\ ContentIdle

\* ------------------------------------------------------- main: pre-flight
Exit(code) ==
    /\ main_pc' = "exited"
    /\ exit_code' = code

\* args.len() < 3: usage and exit(1)
CheckArgs ==
    /\ main_pc = "args"
    /\ \E argc \in 1..6 :
         IF argc < 3
         THEN /\ Exit(1)
              /\ stderr' = Append(stderr, [event |-> "usage"])
         ELSE /\ main_pc' = "input_dir"
              /\ UNCHANGED <<exit_code, stderr>>
    /\ UNCHANGED <<dir, num_threads, csv_files, stdout, results, agg>>
    /\ UNCHANGED <<file_vars, shared_vars>>
    /\ UNCHANGED content_vars

\* !input_dir.is_dir(): ERROR and exit(1)
CheckInputDir ==
    /\ main_pc = "input_dir"
    /\ \E is_dir \in BOOLEAN :
         IF ~is_dir
         THEN /\ Exit(1)
              /\ stderr' = Append(stderr, [event |-> "fatal",
                                           what |-> "input directory does not exist"])
         ELSE /\ main_pc' = "output_dir"
              /\ UNCHANGED <<exit_code, stderr>>
    /\ UNCHANGED <<dir, num_threads, csv_files, stdout, results, agg>>
    /\ UNCHANGED <<file_vars, shared_vars>>
    /\ UNCHANGED content_vars

\* fs::create_dir_all(&output_dir) fails: ERROR and exit(1)
CreateOutputDir ==
    /\ main_pc = "output_dir"
    /\ \E created \in BOOLEAN :
         IF ~created
         THEN /\ Exit(1)
              /\ stderr' = Append(stderr, [event |-> "fatal",
                                           what |-> "cannot create output directory"])
         ELSE /\ main_pc' = "enumerate"
              /\ UNCHANGED <<exit_code, stderr>>
    /\ UNCHANGED <<dir, num_threads, csv_files, stdout, results, agg>>
    /\ UNCHANGED <<file_vars, shared_vars>>
    /\ UNCHANGED content_vars

\* the entries of read_dir whose extension is "csv", case-insensitively
CsvEntries(d) == {f \in d : EqIgnoreAsciiCase(f.ext, "csv")}

\* Enumerate as it would be if the start event were printed before the
\* check for an empty file list
EnumerateAnnouncesFirst ==
    /\ main_pc = "enumerate"
    /\ \E readable \in BOOLEAN :
         IF ~readable \/ CsvEntries(dir) = {}
         THEN /\ Exit(1)
              /\ stderr' = stderr \o
                    <<[event |-> "start", files |-> 0],
                      [event |-> "fatal",
                       what |-> IF readable THEN "no CSV files found"
                                ELSE "cannot read input directory"]>>
              /\ UNCHANGED csv_files
         ELSE /\ csv_files' = SortBySizeDesc(CsvEntries(dir))
              /\ main_pc' = "start"
              /\ UNCHANGED <<exit_code, stderr>>
    /\ UNCHANGED <<dir, num_threads, stdout, results, agg>>
    /\ UNCHANGED <<file_vars, shared_vars>>
    /\ UNCHANGED content_vars

\* read_dir, the extension filter, the empty check and the sort
Enumerate ==
    /\ main_pc = "enumerate"
    /\ \E readable \in BOOLEAN :
         IF ~readable \/ CsvEntries(dir) = {}
         THEN /\ Exit(1)
              /\ stderr' = Append(stderr,
                    [event |-> "fatal",
                     what |-> IF readable THEN "no CSV files found"
                              ELSE "cannot read input directory"])
              /\ UNCHANGED csv_files
         ELSE /\ csv_files' = SortBySizeDesc(CsvEntries(dir))
              /\ main_pc' = "start"
              /\ UNCHANGED <<exit_code, stderr>>
    /\ UNCHANGED <<dir, num_threads, stdout, results, agg>>
    /\ UNCHANGED <<file_vars, shared_vars>>
    /\ UNCHANGED content_vars

\* EmitStart as it would be without the eprintln! of the start event
EmitStartOmitted ==
    /\ main_pc = "start"
    /\ main_pc' = "parallel"
    /\ UNCHANGED <<dir, num_threads, exit_code, csv_files, stderr, stdout, results, agg>>
    /\ UNCHANGED <<file_vars, shared_vars>>
    /\ UNCHANGED content_vars

\* eprintln! of the start event, then the parallel map begins
EmitStart ==
    /\ main_pc = "start"
    /\ stderr' = Append(stderr, [event |-> "start", files |-> Len(csv_files)])
    /\ main_pc' = "parallel"
    /\ UNCHANGED <<dir, num_threads, exit_code, csv_files, stdout, results, agg>>
    /\ UNCHANGED <<file_vars, shared_vars>>
    /\ UNCHANGED content_vars

\* ------------------------------------------------------------- BufWriter
Max(a, b) == IF a >= b THEN a ELSE b

\* A write of the lines s through a handle whose offset is pos (in lines):
\* what is there is overwritten, what lies between the end and pos is a gap.
WriteAt(lines, pos, s) ==
    [i \in 1..Max(Len(lines), pos + Len(s)) |->
        IF i > pos /\ i <= pos + Len(s) THEN s[i - pos]
        ELSE IF i <= Len(lines) THEN lines[i]
        ELSE HoleLine]

\* BufWriter::flush_buf succeeding: the buffer goes to the file at the offset.
Drained(w, d, p) ==
    [w |-> [w EXCEPT !.buf = <<>>, !.used = 0, !.pos = w.pos + Len(w.buf)],
     disk |-> [d EXCEPT ![p].lines = WriteAt(d[p].lines, w.pos, w.buf)]]

\* BufWriter::write_all(line) of n bytes on the file at path p.  `fail` makes
\* the first write to the file that the call needs fail; the call then
\* returns Err and the line is not taken.  A call that needs no write to the
\* file cannot fail.
WriteAll(w, d, p, line, n, fail) ==
    LET spare == BufCap - w.used
        pushed(x) == [x EXCEPT !.buf = Append(x.buf, line), !.used = x.used + n]
    IN  IF n < spare
        THEN [w |-> pushed(w), disk |-> d, ok |-> TRUE, failed |-> FALSE]
        ELSE LET flush == n > spare /\ w.buf # <<>>
                 direct == n >= BufCap
                 fl == IF flush THEN Drained(w, d, p) ELSE [w |-> w, disk |-> d]
             IN  IF fail /\ (flush \/ direct)
                 THEN [w |-> IF flush THEN w ELSE fl.w,
                       disk |-> IF flush THEN d ELSE fl.disk,
                       ok |-> FALSE, failed |-> TRUE]
                 ELSE IF direct
                 THEN [w |-> [fl.w EXCEPT !.pos = fl.w.pos + 1],
                       disk |-> [fl.disk EXCEPT ![p].lines =
                                    WriteAt(fl.disk[p].lines, fl.w.pos, <<line>>)],
                       ok |-> TRUE, failed |-> FALSE]
                 ELSE [w |-> pushed(fl.w), disk |-> fl.disk,
                       ok |-> TRUE, failed |-> FALSE]

\* BufWriter::flush, and the flush of BufWriter's Drop: the error is ignored.
\* A failing flush leaves the buffer as it was.
Flush(w, d, p, fail) ==
    IF w.buf = <<>> THEN [w |-> w, disk |-> d, failed |-> FALSE]
    ELSE IF fail THEN [w |-> w, disk |-> d, failed |-> TRUE]
    ELSE [w |-> Drained(w, d, p).w, disk |-> Drained(w, d, p).disk, failed |-> FALSE]

\* Drop of a BufWriter: one more flush, then the buffer is gone.
Dropped(w, d, p, fail) ==
    LET r == Flush(w, d, p, fail)
    IN  [w |-> [r.w EXCEPT !.buf = <<>>, !.used = 0], disk |-> r.disk, failed |-> r.failed]

\* File::create: the file exists and is empty; the new handle is at offset 0.
Created(d, p) == [d EXCEPT ![p] = [exists |-> TRUE, lines |-> <<>>]]
NewWriter == [created |-> TRUE, buf |-> <<>>, used |-> 0, pos |-> 0]

B2N(b) == IF b THEN 1 ELSE 0

\* ----------------------------------------------------------- process_file
FileResult(f, n, nb, bb, err) ==
    [file_name |-> f, records |-> n, ndjson_bytes |-> nb, bulk_bytes |-> bb, error |-> err]

\* files whose process_file call is running on a pool thread
Active == {f \in AllNames : pc[f] \notin {"pending", "done"}}

\* the files that come before f in csv_files
Before(f) ==
    {csv_files[i] : i \in {j \in 1..Len(csv_files) :
                              \E k \in (j + 1)..Len(csv_files) : csv_files[k] = f}}

\* par_iter on a pool of one thread takes the files in the order of
\* csv_files; with more threads any pending file may be the next to start.
MayStart(f) ==
    /\ Cardinality(Active) < num_threads
    /\ num_threads = 1 => \A g \in Before(f) : pc[g] # "pending"

\* ReturnError as it would be if a failed file were counted as completed
ReturnErrorCountsFile(f, err) ==
    /\ returned' = [returned EXCEPT ![f] = Append(@, FileResult(f, 0, 0, 0, err))]
    /\ pc' = [pc EXCEPT ![f] = "done"]
    /\ completed_files' = completed_files + 1
    /\ UNCHANGED global_records

\* an early `return FileResult { records: 0, .., error: Some(..) }`: neither
\* counter is touched on the way out
ReturnError(f, err) ==
    /\ returned' = [returned EXCEPT ![f] = Append(@, FileResult(f, 0, 0, 0, err))]
    /\ pc' = [pc EXCEPT ![f] = "done"]
    /\ UNCHANGED <<global_records, completed_files>>

\* the next statement of process_file
Goto(f, label) ==
    /\ pc' = [pc EXCEPT ![f] = label]
    /\ UNCHANGED <<returned, global_records, completed_files>>

\* StartFile as it would be if the map stopped handing out tasks once a task
\* has returned an error
StartFileUnlessFailed(f) ==
    /\ main_pc = "parallel"
    /\ f \in Range(csv_files)
    /\ pc[f] = "pending"
    /\ MayStart(f)
    /\ \A g \in AllNames : IF returned[g] = <<>> THEN TRUE ELSE returned[g][1].error = "none"
    /\ \E opened \in BOOLEAN :
         IF opened THEN Goto(f, "headers") ELSE ReturnError(f, "open failed")
    /\ UNCHANGED <<rows_read, record_count, ndjson_bytes_written, bulk_bytes_written,
                   ndjson_writer, bulk_writer>>
    /\ UNCHANGED <<main_vars, disk, io_failures>>
    /\ UNCHANGED content_vars
    /\ UNCHANGED done

\* A pool thread takes the task of one file: process_file begins with
\* File::open(csv_path).
StartFile(f) ==
    /\ main_pc = "parallel"
    /\ f \in Range(csv_files)
    /\ pc[f] = "pending"
    /\ MayStart(f)
    /\ \E opened \in BOOLEAN :
         IF opened THEN Goto(f, "headers") ELSE ReturnError(f, "open failed")
    /\ UNCHANGED <<rows_read, record_count, ndjson_bytes_written, bulk_bytes_written,
                   ndjson_writer, bulk_writer>>
    /\ UNCHANGED <<main_vars, disk, io_failures>>
    /\ UNCHANGED content_vars
    /\ UNCHANGED done

\* ReadHeaders as it would be if the part_number check came after both
\* File::create calls
ReadHeadersAfterCreate(f) ==
    /\ pc[f] = "headers"
    /\ \E h \in {"unparsable", "no_part_number", "resolved"} :
         CASE h = "unparsable" ->
                /\ ReturnError(f, "header parse failed")
                /\ UNCHANGED <<disk, ndjson_writer, bulk_writer>>
           [] h = "no_part_number" ->
                /\ disk' = Created(Created(disk, NdjsonPath(f)), BulkPath(f))
                /\ ndjson_writer' = [ndjson_writer EXCEPT ![f] = NewWriter]
                /\ bulk_writer' = [bulk_writer EXCEPT ![f] = NewWriter]
                /\ ReturnError(f, "no part number column detected")
           [] OTHER ->
                /\ Goto(f, "create_ndjson")
                /\ UNCHANGED <<disk, ndjson_writer, bulk_writer>>
    /\ UNCHANGED <<rows_read, record_count, ndjson_bytes_written, bulk_bytes_written>>
    /\ UNCHANGED <<main_vars, io_failures>>
    /\ UNCHANGED content_vars
    /\ UNCHANGED done

\* csv_reader.headers(), ColumnMap::from_headers and the part_number check,
\* which comes before either output file is created
ReadHeaders(f) ==
    /\ pc[f] = "headers"
    /\ \E h \in {"unparsable", "no_part_number", "resolved"} :
         CASE h = "unparsable" -> ReturnError(f, "header parse failed")
           [] h = "no_part_number" -> ReturnError(f, "no part number column detected")
           [] OTHER -> Goto(f, "create_ndjson")
    /\ UNCHANGED <<rows_read, record_count, ndjson_bytes_written, bulk_bytes_written,
                   ndjson_writer, bulk_writer>>
    /\ UNCHANGED <<main_vars, disk, io_failures>>
    /\ UNCHANGED content_vars
    /\ UNCHANGED done

\* File::create(&ndjson_path)
CreateNdjson(f) ==
    /\ pc[f] = "create_ndjson"
    /\ \E created \in BOOLEAN :
         IF created
         THEN /\ disk' = Created(disk, NdjsonPath(f))
              /\ ndjson_writer' = [ndjson_writer EXCEPT ![f] = NewWriter]
              /\ Goto(f, "create_bulk")
         ELSE /\ ReturnError(f, "create ndjson output failed")
              /\ UNCHANGED <<disk, ndjson_writer>>
    /\ UNCHANGED <<rows_read, record_count, ndjson_bytes_written, bulk_bytes_written,
                   bulk_writer>>
    /\ UNCHANGED <<main_vars, io_failures>>
    /\ UNCHANGED content_vars
    /\ UNCHANGED done

\* File::create(&bulk_path)
CreateBulk(f) ==
    /\ pc[f] = "create_bulk"
    /\ \E created \in BOOLEAN :
         IF created
         THEN /\ disk' = Created(disk, BulkPath(f))
              /\ bulk_writer' = [bulk_writer EXCEPT ![f] = NewWriter]
              /\ Goto(f, "streaming")
         ELSE /\ ReturnError(f, "create bulk output failed")
              /\ UNCHANGED <<disk, bulk_writer>>
    /\ UNCHANGED <<rows_read, record_count, ndjson_bytes_written, bulk_bytes_written,
                   ndjson_writer>>
    /\ UNCHANGED <<main_vars, io_failures>>
    /\ UNCHANGED content_vars
    /\ UNCHANGED done

\* `if record_count % 500_000 == 0 { global_records.fetch_add(500_000) }`
PeriodicAdd(g, count) == IF count % BatchSize = 0 THEN g + BatchSize ELSE g

\* LeftoverAdd as it would be if the whole count were added at end of file
LeftoverAddsCount(g, count) == IF count > 0 THEN g + count ELSE g

\* `let leftover = record_count % 500_000; if leftover > 0 { fetch_add(leftover) }`
LeftoverAdd(g, count) == IF count % BatchSize > 0 THEN g + (count % BatchSize) ELSE g

\* One accepted row: both records are serialized and written, then counted.
\* fn, fa, fd: whether the write of the ndjson line, of the action line and of
\* the bulk document line fails.
EmitRecord(f, fn, fa, fd) ==
    LET k == record_count[f] + 1
        nd == WriteAll(ndjson_writer[f], disk, NdjsonPath(f), DocLine(f, k), DocLen, fn)
        ba == WriteAll(bulk_writer[f], nd.disk, BulkPath(f), ActionLine, ActionLen, fa)
        \* `a.is_ok() && b.is_ok()`: the document is written only after the action
        bd == IF ba.ok
              THEN WriteAll(ba.w, ba.disk, BulkPath(f), EsDocLine(f, k), DocLen, fd)
              ELSE [w |-> ba.w, disk |-> ba.disk, ok |-> FALSE, failed |-> FALSE]
        fails == B2N(nd.failed) + B2N(ba.failed) + B2N(bd.failed)
    IN  /\ fn = nd.failed
        /\ fa = ba.failed
        /\ fd = bd.failed
        /\ io_failures + fails <= MaxFail
        /\ io_failures' = io_failures + fails
        /\ ndjson_writer' = [ndjson_writer EXCEPT ![f] = nd.w]
        /\ bulk_writer' = [bulk_writer EXCEPT ![f] = bd.w]
        /\ disk' = bd.disk
        /\ ndjson_bytes_written' = [ndjson_bytes_written EXCEPT ![f] =
                                       IF nd.ok THEN @ + DocLen ELSE @]
        /\ bulk_bytes_written' = [bulk_bytes_written EXCEPT ![f] =
                                     IF ba.ok /\ bd.ok THEN @ + ActionLen + DocLen ELSE @]
        /\ record_count' = [record_count EXCEPT ![f] = k]
        /\ global_records' = PeriodicAdd(global_records, k)

RECURSIVE SumRowsRead(_)
SumRowsRead(S) ==
    IF S = {} THEN 0
    ELSE LET x == CHOOSE y \in S : TRUE IN rows_read[x] + SumRowsRead(S \ {x})

\* The input directory holds at most MaxRows rows over all its files:
\* read_record can still give a row to f.
MoreRows(f) == SumRowsRead(AllNames) < MaxRows

\* A row loop that a failed read_record stops for good: the pipeline neither
\* reads on nor returns.
ReadRecordStopsOnError(f) ==
    /\ pc[f] = "streaming"
    /\ MoreRows(f)
    /\ \E row \in {"malformed", "empty_part_number", "accepted"} :
         CASE row = "malformed" ->
                /\ rows_read' = [rows_read EXCEPT ![f] = @ + 1]
                /\ pc' = [pc EXCEPT ![f] = "read_error"]
                /\ UNCHANGED <<record_count, ndjson_bytes_written,
                               bulk_bytes_written, ndjson_writer, bulk_writer>>
                /\ UNCHANGED shared_vars
           [] row = "empty_part_number" ->
                /\ rows_read' = [rows_read EXCEPT ![f] = @ + 1]
                /\ UNCHANGED <<pc, record_count, ndjson_bytes_written,
                               bulk_bytes_written, ndjson_writer, bulk_writer>>
                /\ UNCHANGED shared_vars
           [] OTHER ->
                /\ rows_read' = [rows_read EXCEPT ![f] = @ + 1]
                /\ \E fn \in BOOLEAN, fa \in BOOLEAN, fd \in BOOLEAN : EmitRecord(f, fn, fa, fd)
                /\ UNCHANGED <<pc, completed_files>>
    /\ UNCHANGED returned
    /\ UNCHANGED main_vars
    /\ UNCHANGED content_vars
    /\ UNCHANGED done

\* One turn of the main loop: csv_reader.read_record gives a row.
ReadRecord(f) ==
    /\ pc[f] = "streaming"
    /\ MoreRows(f)
    /\ \E row \in {"malformed", "empty_part_number", "accepted"} :
         CASE row \in {"malformed", "empty_part_number"} ->
                /\ rows_read' = [rows_read EXCEPT ![f] = @ + 1]
                /\ UNCHANGED <<pc, record_count, ndjson_bytes_written,
                               bulk_bytes_written, ndjson_writer, bulk_writer>>
                /\ UNCHANGED shared_vars
           [] OTHER ->
                /\ rows_read' = [rows_read EXCEPT ![f] = @ + 1]
                /\ \E fn \in BOOLEAN, fa \in BOOLEAN, fd \in BOOLEAN : EmitRecord(f, fn, fa, fd)
                /\ UNCHANGED <<pc, completed_files>>
    /\ UNCHANGED returned
    /\ UNCHANGED main_vars
    /\ UNCHANGED content_vars
    /\ UNCHANGED done

\* read_record gives end of file: the loop ends, then
\* `let _ = ndjson_writer.flush(); let _ = bulk_writer.flush();` and the leftover
FlushOutputs(f) ==
    /\ pc[f] = "streaming"
    /\ \E fn \in BOOLEAN, fb \in BOOLEAN :
         LET nd == Flush(ndjson_writer[f], disk, NdjsonPath(f), fn)
             bk == Flush(bulk_writer[f], nd.disk, BulkPath(f), fb)
             fails == B2N(nd.failed) + B2N(bk.failed)
         IN  /\ fn = nd.failed
             /\ fb = bk.failed
             /\ io_failures + fails <= MaxFail
             /\ io_failures' = io_failures + fails
             /\ ndjson_writer' = [ndjson_writer EXCEPT ![f] = nd.w]
             /\ bulk_writer' = [bulk_writer EXCEPT ![f] = bk.w]
             /\ disk' = bk.disk
    /\ global_records' = LeftoverAdd(global_records, record_count[f])
    /\ pc' = [pc EXCEPT ![f] = "file_done"]
    /\ UNCHANGED <<rows_read, record_count, ndjson_bytes_written, bulk_bytes_written,
                   returned, completed_files>>
    /\ UNCHANGED main_vars
    /\ UNCHANGED content_vars
    /\ UNCHANGED done

\* completed_files.fetch_add(1) + 1
FetchAddDone(c) == c + 1

\* A step that sets `done` from a load of completed_files and then stores
\* the sum: two pipelines that take it together get the same `done`.  The
\* store is not lost here, so that only `done` differs.
LoadThenStoreCompleted(f) ==
    /\ pc[f] = "file_done"
    /\ completed_files' = FetchAddDone(completed_files)
    /\ \E seen \in {completed_files} \cup {done[g] - 1 : g \in {h \in AllNames : pc[h] = "progress"}} :
         done' = [done EXCEPT ![f] = seen + 1]
    /\ pc' = [pc EXCEPT ![f] = "progress"]
    /\ UNCHANGED <<rows_read, record_count, ndjson_bytes_written, bulk_bytes_written,
                   ndjson_writer, bulk_writer, returned>>
    /\ UNCHANGED <<disk, global_records, io_failures>>
    /\ UNCHANGED main_vars
    /\ UNCHANGED content_vars

\* `let done = completed_files.fetch_add(1, Ordering::Relaxed) + 1`
FetchAddCompleted(f) ==
    /\ pc[f] = "file_done"
    /\ completed_files' = FetchAddDone(completed_files)
    /\ done' = [done EXCEPT ![f] = completed_files']
    /\ pc' = [pc EXCEPT ![f] = "progress"]
    /\ UNCHANGED <<rows_read, record_count, ndjson_bytes_written, bulk_bytes_written,
                   ndjson_writer, bulk_writer, returned>>
    /\ UNCHANGED <<disk, global_records, io_failures>>
    /\ UNCHANGED main_vars
    /\ UNCHANGED content_vars

\* The file_done event, the returned FileResult and the drop of both writers.
FileDone(f) ==
    /\ pc[f] = "progress"
    /\ stderr' = Append(stderr, [event |-> "file_done", file |-> f,
                                 records |-> record_count[f],
                                 done |-> done[f], total |-> Len(csv_files)])
    /\ returned' = [returned EXCEPT ![f] =
                       Append(@, FileResult(f, record_count[f], ndjson_bytes_written[f],
                                            bulk_bytes_written[f], "none"))]
    /\ \E fn \in BOOLEAN, fb \in BOOLEAN :
         LET bk == Dropped(bulk_writer[f], disk, BulkPath(f), fb)
             nd == Dropped(ndjson_writer[f], bk.disk, NdjsonPath(f), fn)
             fails == B2N(nd.failed) + B2N(bk.failed)
         IN  /\ fn = nd.failed
             /\ fb = bk.failed
             /\ io_failures + fails <= MaxFail
             /\ io_failures' = io_failures + fails
             /\ ndjson_writer' = [ndjson_writer EXCEPT ![f] = nd.w]
             /\ bulk_writer' = [bulk_writer EXCEPT ![f] = bk.w]
             /\ disk' = nd.disk
    /\ pc' = [pc EXCEPT ![f] = "done"]
    /\ UNCHANGED <<rows_read, record_count, ndjson_bytes_written, bulk_bytes_written>>
    /\ UNCHANGED <<dir, num_threads, main_pc, exit_code, csv_files, stdout, results, agg>>
    /\ UNCHANGED <<global_records, completed_files>>
    /\ UNCHANGED content_vars
    /\ UNCHANGED done

\* ------------------------------------------------- main: after the workers
\* `.collect()`: returns once every task has returned, in the order of csv_files
Collect ==
    /\ main_pc = "parallel"
    /\ \A f \in Range(csv_files) : pc[f] = "done"
    /\ results' = [i \in 1..Len(csv_files) |-> returned[csv_files[i]][1]]
    /\ agg' = [NoAgg EXCEPT !.i = 1]
    /\ main_pc' = "aggregate"
    /\ UNCHANGED <<dir, num_threads, exit_code, csv_files, stderr, stdout>>
    /\ UNCHANGED <<file_vars, shared_vars>>
    /\ UNCHANGED content_vars

\* Accumulate as it would be with the bulk total fed from the ndjson count
AccumulateNdjsonTwice(a, r) ==
    [i |-> a.i + 1,
     total_records |-> a.total_records + r.records,
     total_ndjson_bytes |-> a.total_ndjson_bytes + r.ndjson_bytes,
     total_bulk_bytes |-> a.total_bulk_bytes + r.ndjson_bytes,
     errors |-> IF r.error # "none" THEN Append(a.errors, r.file_name) ELSE a.errors]

\* Accumulate as it would be if `errors` kept only the latest failure
AccumulateLastErrorOnly(a, r) ==
    [i |-> a.i + 1,
     total_records |-> a.total_records + r.records,
     total_ndjson_bytes |-> a.total_ndjson_bytes + r.ndjson_bytes,
     total_bulk_bytes |-> a.total_bulk_bytes + r.bulk_bytes,
     errors |-> IF r.error # "none" THEN <<r.file_name>> ELSE a.errors]

\* the body of `for r in &results`
Accumulate(a, r) ==
    [i |-> a.i + 1,
     total_records |-> a.total_records + r.records,
     total_ndjson_bytes |-> a.total_ndjson_bytes + r.ndjson_bytes,
     total_bulk_bytes |-> a.total_bulk_bytes + r.bulk_bytes,
     errors |-> IF r.error # "none" THEN Append(a.errors, r.file_name) ELSE a.errors]

AggregateStep ==
    /\ main_pc = "aggregate"
    /\ agg.i <= Len(results)
    /\ agg' = Accumulate(agg, results[agg.i])
    /\ UNCHANGED <<dir, num_threads, main_pc, exit_code, csv_files, stderr, stdout, results>>
    /\ UNCHANGED <<file_vars, shared_vars>>
    /\ UNCHANGED content_vars

\* println! of the complete event
Summary(a, res, total) ==
    [event |-> "complete",
     total_records |-> a.total_records,
     total_ndjson_bytes |-> a.total_ndjson_bytes,
     total_bulk_bytes |-> a.total_bulk_bytes,
     files_processed |-> Len(res) - Len(a.errors),
     files_total |-> total,
     errors |-> Len(a.errors)]

PrintSummary ==
    /\ main_pc = "aggregate"
    /\ agg.i > Len(results)
    /\ stdout' = Append(stdout, Summary(agg, results, Len(csv_files)))
    /\ main_pc' = "report"
    /\ UNCHANGED <<dir, num_threads, exit_code, csv_files, stderr, results, agg>>
    /\ UNCHANGED <<file_vars, shared_vars>>
    /\ UNCHANGED content_vars

\* `if !errors.is_empty() { .. if total_records == 0 { exit(1) } }`, else main returns
ExitStatus(errors, total_records) ==
    IF errors # <<>> /\ total_records = 0 THEN 1 ELSE 0

ReportErrors ==
    /\ main_pc = "report"
    /\ stderr' = stderr \o [i \in 1..Len(agg.errors) |->
                               [event |-> "error", file |-> agg.errors[i]]]
    /\ Exit(ExitStatus(agg.errors, agg.total_records))
    /\ UNCHANGED <<dir, num_threads, csv_files, stdout, results, agg>>
    /\ UNCHANGED <<file_vars, shared_vars>>
    /\ UNCHANGED content_vars

\* ------------------------------------------------- parse_f64, parse_i64
\* the characters the texts are made of, and texts of the spec and of cells
TextChars == {"0", "1", "2", ",", ".", "-", "x"}
ExampleTexts ==
    {"1,234.56", "12,34", "abc", "Qty: 42 units", "1,234", "$ 1,234,567.50",
     "007 and 9", "99999999999999999999", "x 99999999999999999999", "-12,5"}

RECURSIVE StringsOfLen(_, _)
StringsOfLen(cs, n) ==
    IF n = 0 THEN {""} ELSE {t \o c : t \in StringsOfLen(cs, n - 1), c \in cs}

Texts == UNION {StringsOfLen(TextChars, n) : n \in 0..MaxTextLen} \cup ExampleTexts

\* parse_f64(s_text) is called and returns
CallParseF64 ==
    /\ content_pc = "parse"
    /\ parsed.by = "none"
    /\ parsed' = [by |-> "parse_f64", f64 |-> ParseF64(s_text), i64 |-> 0]
    /\ UNCHANGED <<headers, header_i, col_map, file_name, csv_record, doc, es_doc,
                   ndjson_lines, bulk_lines, counts, content_pc, s_text>>
    /\ UNCHANGED <<main_vars, file_vars, shared_vars>>

\* parse_i64(s_text) is called and returns
CallParseI64 ==
    /\ content_pc = "parse"
    /\ parsed.by = "none"
    /\ parsed' = [by |-> "parse_i64", f64 |-> F64Zero, i64 |-> ParseI64(s_text)]
    /\ UNCHANGED <<headers, header_i, col_map, file_name, csv_record, doc, es_doc,
                   ndjson_lines, bulk_lines, counts, content_pc, s_text>>
    /\ UNCHANGED <<main_vars, file_vars, shared_vars>>

\* --------------------------------------------------------- from_headers
\* `for (i, h) in headers.iter().enumerate()`, one header a step, with the
\* loop body that lets a later header take a field that has a column.
ScanHeaderLastWins ==
    /\ content_pc = "scan"
    /\ header_i < Len(headers)
    /\ col_map' = LastMatchWins(col_map, HLower(headers[header_i + 1]), header_i, 1)
    /\ header_i' = header_i + 1
    /\ UNCHANGED <<headers, file_name, csv_record, doc, es_doc, ndjson_lines,
                   bulk_lines, counts, content_pc>>
    /\ UNCHANGED <<main_vars, file_vars, shared_vars>>
    /\ UNCHANGED <<s_text, parsed>>

\* `for (i, h) in headers.iter().enumerate()`, one header a step
ScanHeader ==
    /\ content_pc = "scan"
    /\ header_i < Len(headers)
    /\ col_map' = FirstMatchWins(col_map, HLower(headers[header_i + 1]), header_i, 1)
    /\ header_i' = header_i + 1
    /\ UNCHANGED <<headers, file_name, csv_record, doc, es_doc, ndjson_lines,
                   bulk_lines, counts, content_pc>>
    /\ UNCHANGED <<main_vars, file_vars, shared_vars>>
    /\ UNCHANGED <<s_text, parsed>>

\* the loop is over: from_headers returns `map`
ReturnMap ==
    /\ content_pc = "scan"
    /\ header_i = Len(headers)
    /\ content_pc' = "scanned"
    /\ UNCHANGED <<headers, header_i, col_map, file_name, csv_record, doc, es_doc,
                   ndjson_lines, bulk_lines, counts>>
    /\ UNCHANGED <<main_vars, file_vars, shared_vars>>
    /\ UNCHANGED <<s_text, parsed>>

\* ------------------------------------------------- process_file: the rows
\* This turn of the loop writes a row whether it has a part number or not.
ReadRowKeepEmpty ==
    /\ content_pc = "rows"
    /\ counts.rows_read < MaxProjRows
    /\ \E record \in Rows :
         LET d == RowOutputs[file_name][col_map][record].doc
             e == RowOutputs[file_name][col_map][record].es_doc
             ndjson_buf == RowOutputs[file_name][col_map][record].ndjson_buf
             bulk_doc_buf == RowOutputs[file_name][col_map][record].bulk_doc_buf
         IN  /\ csv_record' = record
             /\ doc' = d
             /\ es_doc' = e
             /\ ndjson_lines' = Append(ndjson_lines, ndjson_buf)
             /\ bulk_lines' = bulk_lines \o <<EsActionLine, bulk_doc_buf>>
             /\ counts' =
                  [rows_read |-> counts.rows_read + 1,
                   record_count |-> counts.record_count + 1,
                   ndjson_bytes_written |->
                       counts.ndjson_bytes_written + Len(ndjson_buf),
                   bulk_bytes_written |->
                       counts.bulk_bytes_written
                           + Len(EsActionLine) + Len(bulk_doc_buf)]
    /\ UNCHANGED <<headers, header_i, col_map, file_name, content_pc>>
    /\ UNCHANGED <<main_vars, file_vars, shared_vars>>
    /\ UNCHANGED <<s_text, parsed>>

\* read_record gives a row: the row is skipped when it has no part number,
\* and is otherwise written as one line to the .ndjson stream and as an action
\* line and a document line to the .bulk stream.  Both writers take every
\* line here; what a refused write does is followed by ReadRecord.
ReadRow ==
    /\ content_pc = "rows"
    /\ counts.rows_read < MaxProjRows
    /\ \E record \in Rows :
         LET d == RowOutputs[file_name][col_map][record].doc
             e == RowOutputs[file_name][col_map][record].es_doc
             ndjson_buf == RowOutputs[file_name][col_map][record].ndjson_buf
             bulk_doc_buf == RowOutputs[file_name][col_map][record].bulk_doc_buf
         IN  /\ csv_record' = record
             /\ IF GetField(record, col_map.part_number) = ""
                THEN /\ counts' = [counts EXCEPT !.rows_read = @ + 1]
                     /\ UNCHANGED <<doc, es_doc, ndjson_lines, bulk_lines>>
                ELSE /\ doc' = d
                     /\ es_doc' = e
                     /\ ndjson_lines' = Append(ndjson_lines, ndjson_buf)
                     /\ bulk_lines' = bulk_lines \o <<EsActionLine, bulk_doc_buf>>
                     /\ counts' =
                          [rows_read |-> counts.rows_read + 1,
                           record_count |-> counts.record_count + 1,
                           ndjson_bytes_written |->
                               counts.ndjson_bytes_written + Len(ndjson_buf),
                           bulk_bytes_written |->
                               counts.bulk_bytes_written
                                   + Len(EsActionLine) + Len(bulk_doc_buf)]
    /\ UNCHANGED <<headers, header_i, col_map, file_name, content_pc>>
    /\ UNCHANGED <<main_vars, file_vars, shared_vars>>
    /\ UNCHANGED <<s_text, parsed>>

\* read_record gives Err: `continue`, the row is not looked at
ReadMalformedRow ==
    /\ content_pc = "rows"
    /\ counts.rows_read < MaxProjRows
    /\ counts' = [counts EXCEPT !.rows_read = @ + 1]
    /\ UNCHANGED <<headers, header_i, col_map, file_name, csv_record, doc, es_doc,
                   ndjson_lines, bulk_lines, content_pc>>
    /\ UNCHANGED <<main_vars, file_vars, shared_vars>>
    /\ UNCHANGED <<s_text, parsed>>

\* read_record gives Ok(false): `break`
EndOfRows ==
    /\ content_pc = "rows"
    /\ content_pc' = "eof"
    /\ UNCHANGED <<headers, header_i, col_map, file_name, csv_record, doc, es_doc,
                   ndjson_lines, bulk_lines, counts>>
    /\ UNCHANGED <<main_vars, file_vars, shared_vars>>
    /\ UNCHANGED <<s_text, parsed>>

\* ------------------------------------------------------------ specification
MainNext ==
    \/ CheckArgs
    \/ CheckInputDir
    \/ CreateOutputDir
    \/ Enumerate
    \/ EmitStart
    \/ Collect
    \/ AggregateStep
    \/ PrintSummary
    \/ ReportErrors

FileNext(f) ==
    \/ StartFile(f)
    \/ ReadHeaders(f)
    \/ CreateNdjson(f)
    \/ CreateBulk(f)
    \/ ReadRecord(f)
    \/ FlushOutputs(f)
    \/ FetchAddCompleted(f)
    \/ FileDone(f)

Next == MainNext \/ \E f \in AllNames : FileNext(f)

Spec == Init /\ [][Next]_vars

\* A pool thread that has a task keeps running it, a free thread takes a
\* pending task, and main keeps running.
FairSpec ==
    /\ Spec
    /\ WF_vars(MainNext)
    /\ \A f \in AllNames : WF_vars(FileNext(f))

\* no run of main is followed
RunIdle ==
    /\ dir = {}
    /\ num_threads = 1
    /\ main_pc = "args"
    /\ exit_code = -1
    /\ csv_files = <<>>
    /\ stderr = <<>>
    /\ stdout = <<>>
    /\ results = <<>>
    /\ agg = NoAgg
    /\ pc = [f \in AllNames |-> "pending"]
    /\ rows_read = [f \in AllNames |-> 0]
    /\ record_count = [f \in AllNames |-> 0]
    /\ ndjson_bytes_written = [f \in AllNames |-> 0]
    /\ bulk_bytes_written = [f \in AllNames |-> 0]
    /\ ndjson_writer = [f \in AllNames |-> NoWriter]
    /\ bulk_writer = [f \in AllNames |-> NoWriter]
    /\ returned = [f \in AllNames |-> <<>>]
    /\ done = [f \in AllNames |-> 0]
    /\ disk = [p \in OutPaths |-> NoFile]
    /\ global_records = 0
    /\ completed_files = 0
    /\ io_failures = 0

\* ColumnMap::from_headers on a header row of at most MaxHeaders cells
HeaderInit ==
    /\ RunIdle
    /\ headers \in SeqsUpTo(HeaderCells, MaxHeaders)
    /\ header_i = 0
    /\ col_map = EmptyColumnMap
    /\ file_name = ""
    /\ csv_record = <<>>
    /\ doc = NoDoc
    /\ es_doc = NoDoc
    /\ ndjson_lines = <<>>
    /\ bulk_lines = <<>>
    /\ counts = NoCounts
    /\ content_pc = "scan"
    /\ s_text = ""
    /\ parsed = NotParsed

HeaderNext == ScanHeader \/ ReturnMap

HeaderSpec == HeaderInit /\ [][HeaderNext]_vars

\* parse_f64 and parse_i64 on one text
ParseInit ==
    /\ RunIdle
    /\ headers = <<>>
    /\ header_i = 0
    /\ col_map = EmptyColumnMap
    /\ file_name = ""
    /\ csv_record = <<>>
    /\ doc = NoDoc
    /\ es_doc = NoDoc
    /\ ndjson_lines = <<>>
    /\ bulk_lines = <<>>
    /\ counts = NoCounts
    /\ content_pc = "parse"
    /\ s_text \in Texts
    /\ parsed = NotParsed

ParseNext == CallParseF64 \/ CallParseI64

ParseSpec == ParseInit /\ [][ParseNext]_vars

\* the row loop of process_file on one file, from the first read_record on
RowInit ==
    /\ RunIdle
    /\ headers = <<>>
    /\ header_i = 0
    /\ col_map \in ColumnMaps
    /\ file_name \in RowFileNames
    /\ csv_record = <<>>
    /\ doc = NoDoc
    /\ es_doc = NoDoc
    /\ ndjson_lines = <<>>
    /\ bulk_lines = <<>>
    /\ counts = NoCounts
    /\ content_pc = "rows"
    /\ s_text = ""
    /\ parsed = NotParsed

RowNext == ReadRow \/ ReadMalformedRow \/ EndOfRows

RowSpec == RowInit /\ [][RowNext]_vars


\* ------------------------------------------------------------------ claims
\* pre-flight has passed: main got as far as the sorted, non-empty file list
PreflightPassed == csv_files # <<>>

\* main has left the parallel map with every FileResult in hand
Collected == PreflightPassed /\ main_pc \in {"aggregate", "report", "exited"}

Failed(r) == r.error # "none"

RECURSIVE SumRecords(_)
SumRecords(rs) == IF rs = <<>> THEN 0 ELSE rs[1].records + SumRecords(Tail(rs))

RECURSIVE SumNdjsonBytes(_)
SumNdjsonBytes(rs) == IF rs = <<>> THEN 0 ELSE rs[1].ndjson_bytes + SumNdjsonBytes(Tail(rs))

RECURSIVE SumBulkBytes(_)
SumBulkBytes(rs) == IF rs = <<>> THEN 0 ELSE rs[1].bulk_bytes + SumBulkBytes(Tail(rs))

RECURSIVE CountFailed(_)
CountFailed(rs) == IF rs = <<>> THEN 0 ELSE B2N(Failed(rs[1])) + CountFailed(Tail(rs))

\* C1: once pre-flight has passed, the process exits non-zero if and only if
\* every file failed and zero total records were produced; a run in which a
\* file finished without error exits 0, even if that file produced no record.
C1_ExitNonZeroIffEveryFileFailed ==
    (main_pc = "exited" /\ PreflightPassed) =>
        (exit_code # 0 <=>
            /\ \A i \in 1..Len(results) : Failed(results[i])
            /\ SumRecords(results) = 0)

\* C2: two distinct enumerated files never have the same output path, so no
\* two pipelines ever create the same .ndjson or the same .bulk file.
C2_OutputPathsNeverCollide ==
    \A f \in Range(csv_files), g \in Range(csv_files) :
        f # g =>
            /\ (ndjson_writer[f].created /\ ndjson_writer[g].created
                    => NdjsonPath(f) # NdjsonPath(g))
            /\ (bulk_writer[f].created /\ bulk_writer[g].created
                    => BulkPath(f) # BulkPath(g))

\* C3: every enumerated file's pipeline reaches Done and returns exactly one
\* FileResult, whichever files fail and however the workers interleave: the
\* map always ends with one result per file, in the order of csv_files.
C3_EveryFileYieldsOneResult ==
    /\ [](\A f \in AllNames : Len(returned[f]) <= 1)
    /\ [](Collected =>
            /\ Len(results) = Len(csv_files)
            /\ \A i \in 1..Len(csv_files) :
                 /\ pc[csv_files[i]] = "done"
                 /\ returned[csv_files[i]] = <<results[i]>>)
    /\ (main_pc = "parallel") ~> Collected

\* a failed file and a file with records, both collected
C3_Witness ==
    /\ Collected
    /\ \E i \in 1..Len(results) : Failed(results[i])
    /\ \E i \in 1..Len(results) : ~Failed(results[i]) /\ results[i].records > 0

\* the FileResult of f, once process_file has returned it
HasResult(f) == returned[f] # <<>>
ResultOf(f) == returned[f][1]
HasFailed(f) == HasResult(f) /\ Failed(ResultOf(f))
HasSucceeded(f) == HasResult(f) /\ ~Failed(ResultOf(f))

\* the part of f's record_count that f has added to global_records
Counted(f) ==
    IF pc[f] \in {"file_done", "progress", "done"} THEN record_count[f]
    ELSE record_count[f] - (record_count[f] % BatchSize)

RECURSIVE SumCounted(_)
SumCounted(S) ==
    IF S = {} THEN 0
    ELSE LET x == CHOOSE y \in S : TRUE IN Counted(x) + SumCounted(S \ {x})

\* C4: a file that fails (open, header parse, no part-number column, output
\* creation) goes straight to Done(error): its FileResult has zero records and
\* zero bytes, no row of it was read or written, and both shared counters
\* hold exactly what the other files have put into them.
C4_ErrorGoesStraightToDone ==
    /\ \A f \in AllNames :
         HasFailed(f) =>
            /\ pc[f] = "done"
            /\ ResultOf(f).records = 0
            /\ ResultOf(f).ndjson_bytes = 0
            /\ ResultOf(f).bulk_bytes = 0
            /\ rows_read[f] = 0
            /\ record_count[f] = 0
            /\ ndjson_writer[f].buf = <<>> /\ ndjson_writer[f].pos = 0
            /\ bulk_writer[f].buf = <<>> /\ bulk_writer[f].pos = 0
    /\ completed_files = Cardinality({f \in AllNames : pc[f] = "progress" \/ HasSucceeded(f)})
    /\ global_records = SumCounted({f \in AllNames : ~HasFailed(f)})

\* one file failed at the last point where it can, while another has records
C4_Witness ==
    /\ \E f \in AllNames :
         HasFailed(f) /\ ResultOf(f).error = "create bulk output failed"
    /\ \E g \in AllNames : HasSucceeded(g) /\ ResultOf(g).records > 0
    /\ global_records > 0

\* C5 as stated: when the header row resolves no part-number column, both
\* output files exist by the time the pipeline is Done(error).
C5_OutputsCreatedBeforeFailure ==
    \A f \in AllNames :
        (HasFailed(f) /\ ResultOf(f).error = "no part number column detected") =>
            /\ disk[NdjsonPath(f)].exists
            /\ disk[BulkPath(f)].exists

\* C5 as amended: when the header row resolves no part-number column, the
\* pipeline is Done(error) without having created either output file; such a
\* file exists only if the pipeline of another input created it.
C5_NoOutputCreatedOnMissingPartNumber ==
    \A f \in AllNames :
        (HasFailed(f) /\ ResultOf(f).error = "no part number column detected") =>
            /\ ~ndjson_writer[f].created
            /\ ~bulk_writer[f].created
            /\ disk[NdjsonPath(f)].exists =>
                 \E g \in AllNames \ {f} :
                    ndjson_writer[g].created /\ NdjsonPath(g) = NdjsonPath(f)
            /\ disk[BulkPath(f)].exists =>
                 \E g \in AllNames \ {f} :
                    bulk_writer[g].created /\ BulkPath(g) = BulkPath(f)

\* a file has failed for want of a part-number column and main has exited
C5_Witness ==
    /\ main_pc = "exited"
    /\ \E f \in AllNames :
         /\ HasFailed(f) /\ ResultOf(f).error = "no part number column detected"
         /\ ~disk[NdjsonPath(f)].exists

\* the .bulk file of f followed by what f's writer still holds
BulkStream(f) == disk[BulkPath(f)].lines \o bulk_writer[f].buf

\* every action line is directly followed by a document line, and every
\* document line directly follows an action line
Alternates(s) ==
    \A i \in 1..Len(s) :
        /\ s[i].kind = "action" => (i < Len(s) /\ s[i + 1].kind = "doc")
        /\ s[i].kind = "doc" => (i > 1 /\ s[i - 1].kind = "action")
        /\ s[i].kind \in {"action", "doc"}

\* C6: in every reachable state the .bulk stream of a file is a strict
\* alternation of action line and document line, also when a write fails.
C6_BulkStreamAlternates ==
    \A f \in AllNames : bulk_writer[f].created => Alternates(BulkStream(f))

\* the lines of a file that was created
LinesOf(p) == disk[p].lines

\* C7: a file that finishes without error reports a record count equal to
\* the number of lines of its .ndjson file and to half the number of lines of
\* its .bulk file, and total_records is the sum of these counts.
C7_RecordCountMatchesLines ==
    /\ \A f \in AllNames :
         HasSucceeded(f) =>
            /\ ResultOf(f).records = Len(LinesOf(NdjsonPath(f)))
            /\ 2 * ResultOf(f).records = Len(LinesOf(BulkPath(f)))
    /\ stdout # <<>> => stdout[1].total_records = SumRecords(results)

\* C8: the summary is an exact function of the collected FileResults: the
\* three totals are the sums of the per-file values, errors is the number of
\* FileResults with an error, and files_processed + errors = files_total.
C8_SummaryAggregatesResults ==
    stdout # <<>> =>
        /\ Len(stdout) = 1
        /\ stdout[1].total_records = SumRecords(results)
        /\ stdout[1].total_ndjson_bytes = SumNdjsonBytes(results)
        /\ stdout[1].total_bulk_bytes = SumBulkBytes(results)
        /\ stdout[1].errors = CountFailed(results)
        /\ stdout[1].files_processed + stdout[1].errors = stdout[1].files_total
        /\ stdout[1].files_total = Len(csv_files)

\* a summary over a failed file and a file with records
C8_Witness ==
    /\ stdout # <<>>
    /\ stdout[1].errors = 1
    /\ stdout[1].files_processed = 1
    /\ stdout[1].total_records > 0
    /\ stdout[1].total_bulk_bytes > stdout[1].total_ndjson_bytes

RECURSIVE SumRecordCount(_)
SumRecordCount(S) ==
    IF S = {} THEN 0
    ELSE LET x == CHOOSE y \in S : TRUE IN record_count[x] + SumRecordCount(S \ {x})

\* the records accepted so far, over all files
AcceptedSoFar == SumRecordCount(AllNames)

\* a step of the records-processed counter: one batch as f accepts a row, or
\* f's remainder as f leaves the loop
CounterStepOf(f) ==
    \/ /\ pc[f] = "streaming" /\ pc'[f] = "streaming"
       /\ record_count'[f] = record_count[f] + 1
       /\ global_records' = global_records + BatchSize
    \/ /\ pc[f] = "streaming" /\ pc'[f] = "file_done"
       /\ global_records' = global_records + (record_count[f] % BatchSize)

\* C9: under every interleaving the records-processed counter moves only by
\* one batch during streaming or by a file's remainder at its end of file,
\* never exceeds the records accepted so far over all files, and equals the
\* sum of the FileResults' record counts once every pipeline is Done.
C9_RecordsCounterExact ==
    /\ [](global_records <= AcceptedSoFar)
    /\ [](Collected => global_records = SumRecords(results))
    /\ [][global_records' # global_records =>
            \E f \in AllNames : CounterStepOf(f)]_vars

\* one file gave a whole batch, another a remainder, and both are counted
C9_Witness ==
    /\ Collected
    /\ \E f \in AllNames, g \in AllNames :
         /\ record_count[f] = BatchSize
         /\ record_count[g] % BatchSize > 0
         /\ global_records = record_count[f] + record_count[g]

\* what f writes to its two outputs when no write fails
RefNdjson(f) == [k \in 1..record_count[f] |-> DocLine(f, k)]
RefBulk(f) ==
    [i \in 1..(2 * record_count[f]) |->
        IF i % 2 = 1 THEN ActionLine ELSE EsDocLine(f, i \div 2)]

\* the last file, in the order of csv_files, that ran without error and has
\* the stem of f: in a run that takes the files one after the other it is the
\* one whose output is left under that stem
LastOfStem(f) ==
    LET I == {i \in 1..Len(csv_files) :
                 HasSucceeded(csv_files[i]) /\ csv_files[i].stem = f.stem}
    IN  csv_files[CHOOSE i \in I : \A j \in I : j <= i]

\* no write and no File::create has failed in this run
NoOutputFailure ==
    /\ io_failures = 0
    /\ \A f \in AllNames :
         HasFailed(f) => ResultOf(f).error \notin
            {"create ndjson output failed", "create bulk output failed"}

\* C10: the outputs are a function of the input and the run constants alone:
\* when no write fails, every interleaving of the workers leaves in each
\* output file what the run that takes the files one after the other leaves.
C10_OutputsIndependentOfInterleaving ==
    (main_pc = "exited" /\ PreflightPassed /\ NoOutputFailure) =>
        \A f \in Range(csv_files) :
            HasSucceeded(f) =>
                /\ LinesOf(NdjsonPath(f)) = RefNdjson(LastOfStem(f))
                /\ LinesOf(BulkPath(f)) = RefBulk(LastOfStem(f))

\* the positions on a stream of the events of one kind
EventsIn(s, kind) == {i \in 1..Len(s) : s[i].event = kind}

\* the positions on a stream of the events of one kind that name the file f
EventsOf(s, kind, f) == {i \in EventsIn(s, kind) : s[i].file = f}

\* C11: in a run that passes pre-flight there is exactly one start event, it
\* is on the diagnostic stream before any pipeline begins and before any
\* file_done event; there is exactly one complete event, printed when every
\* pipeline is Done and followed by no file_done event; and an ERROR line
\* appears only when every worker has finished.
C11_EventsBracketTheWork ==
    /\ [](main_pc \in {"parallel", "aggregate", "report"} \/ (main_pc = "exited" /\ PreflightPassed)
            => Cardinality(EventsIn(stderr, "start")) = 1)
    /\ []((\E f \in AllNames : pc[f] # "pending") \/ EventsIn(stderr, "file_done") # {}
            => EventsIn(stderr, "start") = {1})
    /\ [](Len(stdout) <= 1)
    /\ [](stdout # <<>> =>
            /\ stdout[1].event = "complete"
            /\ \A f \in Range(csv_files) : pc[f] = "done")
    /\ [][stdout # <<>> =>
            EventsIn(stderr', "file_done") = EventsIn(stderr, "file_done")]_vars
    /\ [](main_pc = "exited" /\ PreflightPassed => Len(stdout) = 1)
    /\ [](EventsIn(stderr, "error") # {} =>
            /\ \A f \in Range(csv_files) : pc[f] = "done"
            /\ main_pc = "exited")

\* a run with a file_done event and an ERROR line has ended
C11_Witness ==
    /\ main_pc = "exited"
    /\ EventsIn(stderr, "file_done") # {}
    /\ EventsIn(stderr, "error") # {}
    /\ stdout # <<>>

\* C12: at the end of a run every file that finished without error has
\* exactly one file_done event and no ERROR line, and every file that failed
\* has exactly one ERROR line and no file_done event.
C12_OneEventPerFile ==
    (main_pc = "exited" /\ PreflightPassed) =>
        \A f \in Range(csv_files) :
            /\ HasSucceeded(f) =>
                  /\ Cardinality(EventsOf(stderr, "file_done", f)) = 1
                  /\ EventsOf(stderr, "error", f) = {}
            /\ HasFailed(f) =>
                  /\ Cardinality(EventsOf(stderr, "error", f)) = 1
                  /\ EventsOf(stderr, "file_done", f) = {}
            /\ HasSucceeded(f) \/ HasFailed(f)

\* a run of two failed files has ended
C12_Witness ==
    /\ main_pc = "exited"
    /\ Cardinality({f \in Range(csv_files) : HasFailed(f)}) = 2

\* C13: a run that fails in pre-flight (arguments, input directory, output
\* directory, no .csv file) exits non-zero with no pipeline started, no output
\* file created and no start, file_done or complete event; and nothing of
\* this happens before pre-flight has passed.
C13_PreflightFailureStopsTheRun ==
    /\ ~PreflightPassed =>
          /\ \A f \in AllNames : pc[f] = "pending" /\ returned[f] = <<>>
          /\ \A p \in OutPaths : ~disk[p].exists
          /\ EventsIn(stderr, "start") = {}
          /\ EventsIn(stderr, "file_done") = {}
          /\ stdout = <<>>
    /\ (main_pc = "exited" /\ ~PreflightPassed) =>
          /\ exit_code # 0
          /\ Len(stderr) = 1
          /\ stderr[1].event \in {"usage", "fatal"}

\* a directory with entries, none of them a .csv file, has ended the run
C13_Witness ==
    /\ main_pc = "exited"
    /\ dir # {}
    /\ EventsIn(stderr, "fatal") # {}
    /\ stderr[1].what = "no CSV files found"

\* the row last read was written: doc and es_doc are the records made of it
RowAccepted ==
    /\ counts.record_count > 0
    /\ GetField(csv_record, col_map.part_number) # ""

\* the row last read has a cell in the column of fld
HasCell(fld) == col_map[fld].some /\ RecordGet(csv_record, col_map[fld].idx).some

\* that cell, as the reader gives it
Cell(fld) == csv_record[col_map[fld].idx + 1]

\* the text is a decimal integer that is zero or below zero
HoldsZeroOrNegative(text) ==
    LET digits == IF text # "" /\ At(text, 1) = "-" THEN SubSeq(text, 2, Len(text)) ELSE text
    IN  /\ digits # ""
        /\ Filter(digits, Digits) = digits
        /\ (At(text, 1) = "-" \/ Filter(digits, {"0"}) = digits)

\* C14: for every accepted row whose min_order_qty cell holds 0 or a negative
\* number, the emitted record's minimum-order-quantity is 1; and in every
\* emitted record the minimum-order-quantity is at least 1.
C14_NonPositiveMinOrderQtyYieldsOne ==
    RowAccepted =>
        /\ doc.min_order_qty >= 1
        /\ es_doc.min_order_qty >= 1
        /\ (HasCell("min_order_qty") /\ HoldsZeroOrNegative(Cell("min_order_qty")))
               => doc.min_order_qty = 1

\* the fields process_file gives a fallback value, and that value
DefaultedFields == {"currency", "weight_unit", "stock"}
DefaultOf(fld) ==
    CASE fld = "currency" -> "AED" [] fld = "weight_unit" -> "kg" [] fld = "stock" -> "unknown"

\* C15 as stated: in every emitted record the currency, weight-unit and stock
\* fields are non-empty; an empty or absent cell yields the default (AED, kg,
\* unknown) and a non-empty cell is passed through unchanged.
C15_NonEmptyCellPassedThroughUnchanged ==
    RowAccepted =>
        \A fld \in DefaultedFields :
            /\ doc[fld] # ""
            /\ (~HasCell(fld) \/ Cell(fld) = "") => doc[fld] = DefaultOf(fld)
            /\ (HasCell(fld) /\ Cell(fld) # "") => doc[fld] = Cell(fld)

\* the cell of fld in the row last read with the white space around it
\* removed and then the quote characters around what is left; "" without cell
StrippedCell(fld) == IF HasCell(fld) THEN TrimMatches(Trim(Cell(fld)), Quotes) ELSE ""

\* C15: in every emitted record the currency, weight-unit and stock fields
\* are non-empty: a cell that is absent, or empty once trimmed and stripped of
\* the quotes around it, yields the default (AED, kg, unknown), and any other
\* cell yields its trimmed and quote-stripped text, in both records.
C15_DefaultsForEmptyStrippedCells ==
    RowAccepted =>
        \A fld \in DefaultedFields :
            /\ doc[fld] # ""
            /\ doc[fld] = (IF StrippedCell(fld) = "" THEN DefaultOf(fld) ELSE StrippedCell(fld))
            /\ es_doc[fld] = doc[fld]

\* a row with a currency cell of two quotes and a stock cell of plain text
\* was written: the currency is the default and the stock is the cell
C15_Witness ==
    /\ RowAccepted
    /\ HasCell("currency") /\ Cell("currency") = "''"
    /\ doc.currency = "AED"
    /\ HasCell("stock") /\ doc.stock = Cell("stock")
    /\ doc.stock # "unknown"

\* the header row of the spec's example of column resolution
ExampleHeaders == <<"Vendor Code", "Title", "Stock", "Stock Code">>

\* C16: while from_headers scans a header row left to right, a field that has
\* a column never gets another one from a later header, and a field that gets
\* its column gets the index of the header being scanned, so each field ends
\* with the index at which it was first filled; for the headers
\* ["Vendor Code","Title","Stock","Stock Code"] the result is part_number 0,
\* description 1, stock 2, stock_code 3.
C16_FilledSlotNeverChanges ==
    /\ [][\A fld \in ColumnMapNames :
            /\ col_map[fld].some => col_map'[fld] = col_map[fld]
            /\ (~col_map[fld].some /\ col_map'[fld].some) => col_map'[fld] = Some(header_i)]_vars
    /\ []((content_pc = "scanned" /\ headers = ExampleHeaders) =>
            /\ col_map.part_number = Some(0)
            /\ col_map.description = Some(1)
            /\ col_map.stock = Some(2)
            /\ col_map.stock_code = Some(3))

\* a header row was scanned to its end in which two headers pass the test of
\* the description and two that of the part number: each field has the first
C16_Witness ==
    /\ content_pc = "scanned"
    /\ headers = <<"Vendor Code", "Title", "Description", "'SKU'">>
    /\ col_map.part_number = Some(0)
    /\ col_map.description = Some(1)

\* the largest number of a non-empty set of numbers
Largest(S) == CHOOSE x \in S : \A y \in S : y <= x

\* the text of name between the last `_` before the last `_part` and that
\* `_part`; "" when name has no `_part` or no `_` before it
SegmentBeforePartMarker(name) ==
    LET markers == Occurrences(name, "_part")
        underscores == {u \in Occurrences(name, "_") : u < Largest(markers)}
    IN  IF markers = {} THEN ""
        ELSE IF underscores = {} THEN ""
        ELSE SubSeq(name, Largest(underscores) + 2, Largest(markers))

\* C17 as stated: for every accepted row the emitted stock code is the
\* stock-code cell when that cell is non-empty after trimming, and otherwise
\* the segment of the file name before its `_part` marker, "" without one.
C17_StockCodeIsTrimmedCellOrSegment ==
    RowAccepted =>
        doc.stock_code =
            (IF HasCell("stock_code") /\ Trim(Cell("stock_code")) # ""
             THEN Trim(Cell("stock_code"))
             ELSE SegmentBeforePartMarker(file_name))

\* C17: for every accepted row the emitted stock code is the stock-code cell,
\* trimmed and stripped of the quotes around it, when that text is non-empty;
\* otherwise it is the segment of the file name between the last `_` before
\* the `_part` marker and that marker ("APMG price 1 day_DS1_part1.csv"
\* gives "DS1"), and "" when the name has no such pattern.
C17_StockCodeIsStrippedCellOrSegment ==
    /\ SegmentBeforePartMarker("APMG price 1 day_DS1_part1.csv") = "DS1"
    /\ RowAccepted =>
        /\ doc.stock_code =
             (IF StrippedCell("stock_code") # ""
              THEN StrippedCell("stock_code")
              ELSE SegmentBeforePartMarker(file_name))
        /\ es_doc.stock_code = doc.stock_code

\* a row with an empty stock-code cell was written for the file of the spec's
\* example: its stock code is DS1
C17_Witness ==
    /\ RowAccepted
    /\ file_name = "APMG price 1 day_DS1_part1.csv"
    /\ HasCell("stock_code") /\ Cell("stock_code") = ""
    /\ doc.stock_code = "DS1"

\* the member serde_json writes last for a PartRecord, with the comma before it
ImportedAtMember == ",\"importedAt\":\"" \o ImportedAt \o "\""

\* C18: for every accepted row the document written to the .bulk stream is
\* the document written to the .ndjson stream with the import timestamp
\* removed: es_doc has the 19 fields of doc other than imported_at, with the
\* same values, and each document line of the .bulk stream, which follows its
\* action line, is the line of the .ndjson stream for the same row without the
\* importedAt member.
C18_EsDocIsDocWithoutImportedAt ==
    /\ Len(PartRecordESFields) = 19
    /\ RowAccepted =>
        /\ DOMAIN es_doc = DOMAIN doc \ {"imported_at"}
        /\ \A k \in 1..Len(PartRecordESFields) :
               es_doc[PartRecordESFields[k]] = doc[PartRecordESFields[k]]
    /\ Len(bulk_lines) = 2 * Len(ndjson_lines)
    /\ \A i \in 1..Len(ndjson_lines) :
        LET es_line == bulk_lines[2 * i]
        IN  /\ bulk_lines[2 * i - 1] = EsActionLine
            /\ ndjson_lines[i] =
                 SubSeq(es_line, 1, Len(es_line) - 2) \o ImportedAtMember \o "}\n"

\* two rows were written, the last with the stock sentinel in both records
C18_Witness ==
    /\ RowAccepted
    /\ counts.record_count = 2
    /\ ~HasCell("stock")
    /\ doc.stock = "unknown"
    /\ es_doc.stock = "unknown"

\* the pipeline of f has begun and has not returned
Running(f) == pc[f] \notin {"pending", "done"}

\* C19: under fair scheduling of the workers every file pipeline that has
\* begun reaches Done, with a result that is a success or an error, for an
\* input of finitely many rows; a row that is read and not written, as one
\* whose read gives an error, leaves the pipeline streaming, and the rows left
\* to read are one fewer.
C19_EveryPipelineReachesDone ==
    /\ \A f \in AllNames : Running(f) ~> (pc[f] = "done" /\ HasResult(f))
    /\ [][\A f \in AllNames :
            (rows_read'[f] # rows_read[f] /\ record_count'[f] = record_count[f]) =>
                /\ pc[f] = "streaming" /\ pc'[f] = "streaming"
                /\ rows_read'[f] = rows_read[f] + 1]_vars

\* a pipeline is done without error after reading a row it did not write
C19_Witness ==
    \E f \in AllNames :
        /\ pc[f] = "done"
        /\ HasSucceeded(f)
        /\ rows_read[f] > record_count[f]

\* the row has no part number: it is too short to have a cell in the column
\* of the part number, or that cell is empty once it is trimmed and stripped
\* of the quotes around it
LacksPartNumber(record) ==
    \/ ~RecordGet(record, col_map.part_number.idx).some
    \/ TrimMatches(Trim(record[col_map.part_number.idx + 1]), Quotes) = ""

\* how a document line with an empty part number begins
EmptyPartNumberPrefix == "{\"partNumber\":\"\""

\* C20: a row whose part-number cell is empty after trimming and
\* quote-stripping, or which is too short to have that cell, is skipped: the
\* step that reads it leaves both streams, the record count and both byte
\* counts as they were, and the loop goes on; so no record that is written has
\* an empty part number.
C20_RowWithoutPartNumberIsSkipped ==
    /\ [][(counts'.rows_read # counts.rows_read /\ LacksPartNumber(csv_record')) =>
            /\ ndjson_lines' = ndjson_lines
            /\ bulk_lines' = bulk_lines
            /\ counts'.record_count = counts.record_count
            /\ counts'.ndjson_bytes_written = counts.ndjson_bytes_written
            /\ counts'.bulk_bytes_written = counts.bulk_bytes_written
            /\ counts'.rows_read = counts.rows_read + 1
            /\ content_pc' = "rows"]_vars
    /\ [](counts.record_count > 0 => (doc.part_number # "" /\ es_doc.part_number # ""))
    /\ [](\A i \in 1..Len(ndjson_lines) :
            SubSeq(ndjson_lines[i], 1, Len(EmptyPartNumberPrefix)) # EmptyPartNumberPrefix)
    /\ [](\A i \in 1..Len(bulk_lines) :
            SubSeq(bulk_lines[i], 1, Len(EmptyPartNumberPrefix)) # EmptyPartNumberPrefix)

\* after a row that was written, a row too short to have the part-number
\* column was read and skipped
C20_Witness ==
    /\ col_map = StockCodeFirstMap
    /\ csv_record = <<"P9">>
    /\ counts.rows_read = 2
    /\ counts.record_count = 1
    /\ Len(ndjson_lines) = 1
    /\ content_pc = "rows"

\* the step scans the header at header_i
Scans(h) == content_pc = "scan" /\ header_i' = header_i + 1 /\ h = headers[header_i + 1]

\* C21: for every header the test of the part number comes before the test
\* of every other field: a header that passes it while part_number has no
\* column gives its index to part_number and to no other field, also when it
\* passes the test of another field.
C21_PartNumberTestedFirst ==
    [][\A h \in HeaderCells :
          (Scans(h) /\ ~col_map.part_number.some /\ HeaderMatches(HLower(h), "part_number")) =>
              col_map' = [col_map EXCEPT !["part_number"] = Some(header_i)]]_vars

\* a header that passes the tests of the part number and of the description
\* was scanned first: the part number has its index, the description has none
C21_Witness ==
    /\ content_pc = "scanned"
    /\ headers = <<"Vendor Code Title">>
    /\ HeaderMatches(HLower(headers[1]), "description")
    /\ col_map.part_number = Some(0)
    /\ ~col_map.description.some

\* the fields that have the column i
FieldsOfColumn(map, i) == {fld \in ColumnMapNames : map[fld] = Some(i)}

\* C22: for every header row each column is given to at most one field: at
\* no point of the scan, and so not in the ColumnMap it returns, do two fields
\* (stock and stock_code among them) hold the same index, and a step of the
\* scan gives a column to at most one field.
C22_NoColumnHasTwoFields ==
    /\ [](\A i \in 0..(Len(headers) - 1) : Cardinality(FieldsOfColumn(col_map, i)) <= 1)
    /\ [](col_map.stock.some => col_map.stock # col_map.stock_code)
    /\ [][Cardinality({fld \in ColumnMapNames : col_map'[fld] # col_map[fld]}) <= 1]_vars

\* a row was scanned whose first header passes two tests and whose other
\* headers are those of the stock and of the stock code
C22_Witness ==
    /\ content_pc = "scanned"
    /\ headers = <<"Vendor Code Title", "Stock", "Stock Code">>
    /\ FieldsOfColumn(col_map, 0) = {"part_number"}
    /\ FieldsOfColumn(col_map, 1) = {"stock"}
    /\ FieldsOfColumn(col_map, 2) = {"stock_code"}

\* the fields from_headers tests before fld
FieldsBefore(fld) ==
    {ColumnMapFields[j] : j \in {k \in 1..Len(ColumnMapFields) :
        \E l \in (k + 1)..Len(ColumnMapFields) : ColumnMapFields[l] = fld}}

\* C26: a header whose lower-cased, quote-stripped text contains "stock
\* code", "stockcode" or "warehouse", that passes the test of no earlier field
\* and is scanned while stock_code has no column, gives its index to
\* stock_code; a header that is exactly "stock", scanned while stock has no
\* column, gives its index to stock.
C26_WarehouseSubstringIsStockCode ==
    [][\A h \in HeaderCells :
          /\ (/\ Scans(h)
              /\ \E pat \in {"stock code", "stockcode", "warehouse"} : Contains(HLower(h), pat)
              /\ \A fld \in FieldsBefore("stock_code") : ~HeaderMatches(HLower(h), fld)
              /\ ~col_map.stock_code.some)
                 => col_map'.stock_code = Some(header_i)
          /\ (Scans(h) /\ HLower(h) = "stock" /\ ~col_map.stock.some)
                 => col_map'.stock = Some(header_i)]_vars

\* the numerators of the "completed/total" progress of the file_done events
Numerators == {stderr[i].done : i \in EventsIn(stderr, "file_done")}

\* the pipelines that have left the row loop at the end of their input
FinishedStreaming ==
    {f \in AllNames : pc[f] \in {"file_done", "progress"} \/ HasSucceeded(f)}

\* C25: under every interleaving of the workers the numerators of the
\* file_done events are pairwise distinct and none is above the counter; once
\* no pipeline is between its fetch_add and its event they are exactly 1..k,
\* k the number of files that finished without error; and the counter of
\* completed files never exceeds the number of pipelines that have finished
\* streaming.
C25_NumeratorsAreOneToK ==
    /\ \A i, j \in EventsIn(stderr, "file_done") :
         i # j => stderr[i].done # stderr[j].done
    /\ Numerators \subseteq 1..completed_files
    /\ (\A f \in AllNames : pc[f] # "progress") =>
          Numerators = 1..Cardinality({f \in AllNames : HasSucceeded(f)})
    /\ completed_files <= Cardinality(FinishedStreaming)

\* two files finished without error and the event with numerator 2 is on
\* stderr before the event with numerator 1
C25_Witness ==
    /\ \A f \in Range(csv_files) : pc[f] = "done"
    /\ \E i, j \in EventsIn(stderr, "file_done") :
         i < j /\ stderr[i].done = 2 /\ stderr[j].done = 1

\* the text without the characters that are no digit, `.`, `-` or `,`
Cleaned(text) == Filter(text, Digits \cup {".", "-", ","})

\* the text without its `,`
WithoutCommas(text) == Filter(text, Digits \cup {".", "-"})

\* the number the separator rule gives for a text: with a `.` every `,` is
\* dropped; without one a single `,` with at most 2 characters after it
\* becomes the `.`; any other `,` is dropped
SeparatorRule(text) ==
    LET c == Cleaned(text)
        commas == Occurrences(c, ",")
    IN  IF Contains(c, ".") THEN ParseOrZero(WithoutCommas(c))
        ELSE IF Cardinality(commas) = 1 /\ \A i \in commas : Len(c) - (i + 1) <= 2
             THEN LET i == CHOOSE j \in commas : TRUE
                  IN  ParseOrZero(SubSeq(c, 1, i) \o "." \o SubSeq(c, i + 2, Len(c)))
        ELSE ParseOrZero(WithoutCommas(c))

\* C23: parse_f64 returns a number for every text and follows the separator
\* rule: a text that is empty or has no digit gives 0.0; when the cleaned text
\* has a `.` every `,` is dropped ("1,234.56" gives 1234.56); otherwise a
\* single `,` followed by at most 2 characters is the decimal separator
\* ("12,34" gives 12.34); any other `,` is dropped as a thousands separator.
C23_SeparatorRule ==
    parsed.by = "parse_f64" =>
        /\ parsed.f64 = SeparatorRule(s_text)
        /\ Filter(s_text, Digits) = "" => parsed.f64 = F64Zero
        /\ s_text = "1,234.56" => parsed.f64 = F64(FALSE, "1234", "56")
        /\ s_text = "12,34" => parsed.f64 = F64(FALSE, "12", "34")
        /\ s_text = "1,234" => parsed.f64 = F64(FALSE, "1234", "")
        /\ s_text \in {"", "abc"} => parsed.f64 = F64Zero

\* parse_f64 returned for the text with a decimal comma
C23_Witness ==
    /\ parsed.by = "parse_f64"
    /\ s_text = "12,34"
    /\ parsed.f64 = F64(FALSE, "12", "34")

\* the positions of the digits of the text
DigitPositions(text) == {i \in 1..Len(text) : At(text, i) \in Digits}

\* the first maximal run of digits of the text, "" when it has no digit
FirstDigitRun(text) ==
    IF DigitPositions(text) = {} THEN ""
    ELSE LET first == CHOOSE i \in DigitPositions(text) : \A j \in DigitPositions(text) : i <= j
             last == CHOOSE k \in first..Len(text) :
                        /\ \A l \in first..k : l \in DigitPositions(text)
                        /\ (k + 1) \notin DigitPositions(text)
         IN  SubSeq(text, first, last)

\* how a number that is not negative is written: the digits without zeros
\* before them, "0" for zero
Numeral(digits) ==
    IF TrimStartMatches(digits, {"0"}) = "" THEN "0" ELSE TrimStartMatches(digits, {"0"})

\* the digits are those of a number above i64::MAX
AboveI64Max(digits) ==
    LET n == Numeral(digits)
    IN  \/ Len(n) > Len(I64MaxDigits)
        \/ Len(n) = Len(I64MaxDigits) /\ DigitsGreater(n, I64MaxDigits)

\* C24 as stated: for every text parse_i64 returns the value of the first
\* maximal run of digits, 0 when the text has no digit, and never a negative
\* number.
C24_ValueOfFirstDigitRun ==
    parsed.by = "parse_i64" =>
        /\ ToString(parsed.i64) = Numeral(FirstDigitRun(s_text))
        /\ parsed.i64 >= 0

\* C24: for every text parse_i64 returns the value of the first maximal run
\* of digits, skipping what is before it, when that value is at most
\* i64::MAX, and 0 when the text has no digit or the value is above i64::MAX;
\* the result is never negative ("Qty: 42 units" gives 42, "" gives 0).
C24_ValueOfFirstDigitRunOrZero ==
    parsed.by = "parse_i64" =>
        /\ ToString(parsed.i64) =
             (IF AboveI64Max(FirstDigitRun(s_text)) THEN "0"
              ELSE Numeral(FirstDigitRun(s_text)))
        /\ parsed.i64 >= 0
        /\ s_text = "Qty: 42 units" => parsed.i64 = 42
        /\ s_text = "" => parsed.i64 = 0

\* parse_i64 returned for the text of the spec's example
C24_Witness ==
    /\ parsed.by = "parse_i64"
    /\ s_text = "Qty: 42 units"
    /\ parsed.i64 = 42

====
